---- MODULE Spec2Model ----
(***************************************************************************)
(* Verification model of Arctan-OS/Kmm, the kernel memory manager:         *)
(* the physical buddy allocator (pbuddy.c), the intrusive freelist         *)
(* (pfreelist.c), the physical memory manager (pmm.c), the virtual buddy   *)
(* (vbuddy.c, vmm.c), the SLAB (pslab.c) and the general allocator         *)
(* (allocator.c).                                                          *)
(*                                                                         *)
(* Memory is modelled at the granularity the allocators use it: the words  *)
(* an allocator writes inside the blocks it manages (canaries and next     *)
(* pointers) are functions from block addresses to values. Addresses are   *)
(* byte addresses. Every action is one complete call of an entry point.    *)
(***************************************************************************)
EXTENDS Integers, Sequences, FiniteSets, TLC

NULL == 0

(***************************************************************************)
(* Bounds of the model.                                                    *)
(***************************************************************************)
\* lowest exponent of the modelled buddy regions (init_pbuddy's min_exp)
MinExp == 6
\* number of splits between the largest and the smallest block of a region
Depth == 3
\* buddy regions the PMM can hand to one ARC_PBuddy list
MaxRegions == 2
\* calls of entry points and caller writes in one run of the buddy model
MaxOps == 4

MaxExp == MinExp + Depth

(***************************************************************************)
(* pbuddy.h                                                                *)
(***************************************************************************)
\* the canary words are kept as their hexadecimal text; "0x0" is a cleared word
ARC_PBUDDY_CANARY_LOW == "0xAFAF1010"
ARC_PBUDDY_CANARY_HIGH == "0xCD01EF90"
CLEARED == "0x0"
\* sizeof(struct ARC_PBuddyNodeMeta): int exp + uint32_t resv0, packed
SizeofNodeMeta == 8

Range(f) == { f[x] : x \in DOMAIN f }

Max2(a, b) == IF a >= b THEN a ELSE b
Min2(a, b) == IF a <= b THEN a ELSE b

\* SIZE_T_NEXT_POW2 (lib/util.h): the least power of two >= size
SIZE_T_NEXT_POW2(size) ==
    LET k == CHOOSE k \in 0..30 : 2^k >= size /\ \A j \in 0..30 : 2^j >= size => j >= k
    IN 2^k

\* __builtin_ctz of a power of two
Ctz(p) == CHOOSE k \in 0..30 : 2^k = p

\* a ^ (1 << e) on the absolute address a
XorBit(a, e) == IF (a \div (2^e)) % 2 = 0 THEN a + 2^e ELSE a - 2^e

\* base address of the k-th block of size 2^MaxExp the PMM hands out; a
\* region is named by its base address
RegionBase(k) == k * (2^MaxExp)
Regions == { RegionBase(k) : k \in 1..MaxRegions }
\* addresses of the 2^MinExp-sized units of all regions
Units == { r + k * (2^MinExp) : r \in Regions, k \in 0..(2^Depth - 1) }

VARIABLES
    pb,     \* the ARC_PBuddy list, its metas and the memory of its regions
    fl,     \* a chain of ARC_PFreelistMeta regions and the memory of their nodes
    pm,     \* the physical memory manager: its tables, pools and memory
    ga,     \* the general allocator: its SLAB and its large-allocation path
    vm,     \* an ARC_VMMMeta: the virtual buddy behind vmm_alloc and vmm_free
    pw,     \* an ARC_PWatermark list and its regions
    th,     \* the calls in progress: each thread's position and locals
    live,   \* blocks handed out and not yet freed: set of <<address, size>>
    freed,  \* addresses freed and not handed out again since
    op,     \* the last call: its kind, arguments and result
    nops    \* calls made so far

vars == <<pb, fl, pm, ga, vm, pw, th, live, freed, op, nops>>

\* the components a specification of one component leaves out
NotPB == <<fl, pm, ga, vm, pw, th>>
NotFL == <<pb, pm, ga, vm, pw, th>>
NotPM == <<pb, fl, ga, vm, pw, th>>
NotGA == <<pb, fl, pm, vm, pw, th>>
NotVM == <<pb, fl, pm, ga, pw, th>>
NotPW == <<pb, fl, pm, ga, vm, th>>
\* the same for specifications with calls in progress
NotPBC == <<fl, pm, ga, vm, pw>>
NotPWC == <<pb, fl, pm, ga, vm>>

\* value of the variable of a component that a specification leaves out
Idle == "idle"

NoOp == [kind |-> "init", size |-> 0, addr |-> NULL, ret |-> 0, splits |-> 0,
         region |-> 0, prelive |-> {}, fresh |-> FALSE, same |-> FALSE,
         cnt0 |-> 0, cnt1 |-> 0, prevkind |-> "init", prevaddr |-> NULL,
         who |-> "none", exp |-> 0, slab |-> NULL, vmm |-> -1, would |-> 0,
         granted |-> 0, alt |-> "none", pre |-> 0]

\* the record of a call: its kind, its arguments and what it returned
MkOp(kind, size, addr, ret) ==
    [NoOp EXCEPT !.kind = kind, !.size = size, !.addr = addr, !.ret = ret,
                 !.prelive = live]

GhostInit ==
    /\ live = {}
    /\ freed = {}
    /\ op = NoOp
    /\ nops = 0

(***************************************************************************)
(* pbuddy.c                                                                *)
(***************************************************************************)
\* ADDRESS_IN_META(address, meta, exp)
PB_ADDRESS_IN_META(address, meta, exp) ==
    meta.base <= address /\ address <= meta.base + 2^exp

pbuddy_ptr2idx(meta, ptr) ==
    ((ptr - meta.base) \div (2^meta.min_exp)) \div SizeofNodeMeta

CanariesValid(S, node) ==
    /\ S.canary_high[node] = ARC_PBUDDY_CANARY_HIGH
    /\ S.canary_low[node] = ARC_PBUDDY_CANARY_LOW

\* ARC_ATOMIC_XCHG(&meta->free[exp_idx], &node, &node->next): push node
PushFree(S, r, exp_idx, node) ==
    [S EXCEPT !.metas[r].free[exp_idx] = node,
              !.next[node] = S.metas[r].free[exp_idx]]

\* the walk of pbuddy_merge over free[exp_idx] looking for buddy:
\* current, last when it stops; hang when the list is cyclic without buddy
RECURSIVE MergeWalk(_, _, _, _, _)
MergeWalk(S, current, last, buddy, seen) ==
    IF current = NULL \/ current = buddy
    THEN [current |-> current, last |-> last, hang |-> FALSE]
    ELSE IF current \in seen
    THEN [current |-> NULL, last |-> last, hang |-> TRUE]
    ELSE MergeWalk(S, S.next[current], current, buddy, seen \cup {current})

pbuddy_merge(S, r, node) ==
    LET meta == S.metas[r]
        idx == pbuddy_ptr2idx(meta, node)
        exp == meta.node_metas[idx]
    IN
    IF exp >= meta.exp THEN [S |-> S, ret |-> NULL]
    ELSE IF exp < meta.min_exp
    THEN [S |-> [S EXCEPT !.fault = "oob"], ret |-> NULL]
    ELSE
    LET exp_idx == exp - meta.min_exp
        buddy == XorBit(node, exp)
    IN
    IF buddy \notin DOMAIN S.canary_high
    THEN \* the buddy's canaries are read outside the memory of the model
         [S |-> [S EXCEPT !.fault = "oob"], ret |-> NULL]
    ELSE IF ~CanariesValid(S, buddy) THEN [S |-> S, ret |-> NULL]
    ELSE
    LET primary == Min2(node, buddy)
        secondary == Max2(node, buddy)
        S1 == [S EXCEPT !.canary_high[secondary] = CLEARED,
                        !.canary_low[secondary] = CLEARED]
        w == MergeWalk(S1, meta.free[exp_idx], NULL, buddy, {})
    IN
    IF w.hang THEN [S |-> [S1 EXCEPT !.fault = "hang"], ret |-> NULL]
    ELSE IF w.current = NULL THEN [S |-> S1, ret |-> NULL]
    ELSE
    LET S2 == IF w.last # NULL
              THEN [S1 EXCEPT !.next[w.last] = S1.next[w.current]]
              ELSE [S1 EXCEPT !.metas[r].free[exp_idx] = S1.next[w.current]]
        S3 == [S2 EXCEPT !.metas[r].node_metas[idx] = exp + 1]
    IN [S |-> S3, ret |-> primary]

\* while ((t1 = pbuddy_merge(meta, t)) != NULL) t = t1;
RECURSIVE MergeLoop(_, _, _)
MergeLoop(S, r, t) ==
    CHOOSE res \in
      { IF m.ret = NULL \/ m.S.fault # "none"
        THEN [S |-> m.S, t |-> t]
        ELSE MergeLoop(m.S, r, m.ret) : m \in {pbuddy_merge(S, r, t)} } : TRUE

\* the part of pbuddy_release after the merge loop left S and the block t
ReleasePush(S, r, node, t, size) ==
    LET meta == S.metas[r]
        exp_idx == meta.node_metas[pbuddy_ptr2idx(meta, node)] - meta.min_exp
        S1 == [S EXCEPT !.canary_high[node] = ARC_PBUDDY_CANARY_HIGH,
                        !.canary_low[node] = ARC_PBUDDY_CANARY_LOW]
    IN
    IF exp_idx < 0 \/ exp_idx > meta.exp - meta.min_exp
    THEN [S |-> [S1 EXCEPT !.fault = "oob"], ret |-> size]
    ELSE [S |-> PushFree(S1, r, exp_idx, t), ret |-> size]

pbuddy_release(S, r, node) ==
    LET meta == S.metas[r]
        size == 2^meta.node_metas[pbuddy_ptr2idx(meta, node)]
    IN CHOOSE res \in
         { IF ml.S.fault # "none" THEN [S |-> ml.S, ret |-> size]
           ELSE ReleasePush(ml.S, r, node, ml.t, size) :
           ml \in {MergeLoop(S, r, node)} } : TRUE

\* a split that halves the block and drops its upper half
pbuddy_split_drop(S, r, node) ==
    LET meta == S.metas[r]
        idx == pbuddy_ptr2idx(meta, node)
    IN IF meta.node_metas[idx] <= meta.min_exp THEN [S |-> S, ret |-> -2]
       ELSE [S |-> [S EXCEPT !.metas[r].node_metas[idx] = @ - 1], ret |-> 0]

pbuddy_split(S, r, node) ==
    LET meta == S.metas[r]
        idx == pbuddy_ptr2idx(meta, node)
        exp0 == meta.node_metas[idx]
    IN
    IF exp0 <= meta.min_exp THEN [S |-> S, ret |-> -2]
    ELSE
    LET exp == exp0 - 1
        exp_idx == exp - meta.min_exp
        buddy == XorBit(node, exp)
        buddy_idx == pbuddy_ptr2idx(meta, buddy)
        S1 == [S EXCEPT !.metas[r].node_metas[idx] = exp]
        S2 == [S1 EXCEPT !.canary_high[buddy] = ARC_PBUDDY_CANARY_HIGH,
                         !.canary_low[buddy] = ARC_PBUDDY_CANARY_LOW]
        S3 == [S2 EXCEPT !.metas[r].node_metas[buddy_idx] = exp]
    IN [S |-> PushFree(S3, r, exp_idx, buddy), ret |-> 0]

\* for (; c > 0; c--) pbuddy_split(meta, node), with the failure path
RECURSIVE SplitLoop(_, _, _, _, _, _)
SplitLoop(S, r, node, c, i, done) ==
    IF c = 0 THEN [S |-> S, ret |-> node, splits |-> done]
    ELSE
    CHOOSE res \in
      { IF s.ret # 0
        THEN [S |-> PushFree(s.S, r, i, node), ret |-> NULL, splits |-> done]
        ELSE SplitLoop(s.S, r, node, c - 1, i, done + 1) :
        s \in {pbuddy_split(S, r, node)} } : TRUE

\* least i in from..n-1 with free[i] non-null, n when there is none
RECURSIVE ScanUp(_, _, _)
ScanUp(free, i, n) ==
    IF i < n /\ free[i] = NULL THEN ScanUp(free, i + 1, n) ELSE i

pbuddy_acquire(S, r, exp) ==
    LET meta == S.metas[r]
        exp_idx == exp - meta.min_exp
        node0 == meta.free[exp_idx]
        n == meta.exp - meta.min_exp + 1
    IN
    IF node0 # NULL /\ CanariesValid(S, node0)
    THEN \* retry1: the exchange returns the head that was read
         [S |-> [S EXCEPT !.metas[r].free[exp_idx] = S.next[node0]],
          ret |-> node0, splits |-> 0]
    ELSE
    LET i == ScanUp(meta.free, exp_idx + 1, n)
        c == i - exp_idx
        \* node keeps its last assignment when the scan runs off the array
        node == IF i < n THEN meta.free[i]
                ELSE IF exp_idx + 1 < n THEN NULL ELSE node0
    IN
    IF node = NULL THEN [S |-> S, ret |-> NULL, splits |-> 0]
    ELSE IF i >= n
    THEN [S |-> [S EXCEPT !.fault = "oob"], ret |-> NULL, splits |-> 0]
    ELSE
    LET S1 == [S EXCEPT !.metas[r].free[i] = S.next[node]]
    IN
    IF ~CanariesValid(S1, node) THEN [S |-> S1, ret |-> NULL, splits |-> 0]
    ELSE SplitLoop(S1, r, node, c, i, 0)

\* pmm_alloc(1 << list->exp) as pbuddy_alloc calls it: the next block of the
\* PMM's supply, NULL when it is used up
pmm_alloc_region(S) ==
    IF S.pool = <<>> THEN NULL ELSE Head(S.pool)

\* the meta init_pbuddy builds over the block at base
FreshMeta(base, exp, min_exp) ==
    [base |-> base, free_objects |-> 1, exp |-> exp, min_exp |-> min_exp,
     node_metas |-> [k \in 0..(2^(exp - min_exp) - 1) |-> IF k = 0 THEN exp ELSE 0],
     free |-> [k \in 0..(exp - min_exp) |-> IF k = exp - min_exp THEN base ELSE NULL]]

init_pbuddy(S, base, exp, min_exp) ==
    IF base = NULL \/ exp < min_exp \/ (S.exp # -1 /\ exp # S.exp)
    THEN [S |-> S, ret |-> -1]
    ELSE
    LET r == base
        meta == FreshMeta(base, exp, min_exp)
    IN [S |-> [S EXCEPT !.exp = exp, !.min_exp = min_exp,
                        !.metas = [b \in DOMAIN S.metas \cup {r} |->
                                     IF b = r THEN meta ELSE S.metas[b]],
                        !.canary_high[base] = ARC_PBUDDY_CANARY_HIGH,
                        !.canary_low[base] = ARC_PBUDDY_CANARY_LOW,
                        !.next[base] = NULL,
                        !.head = <<r>> \o S.head,
                        !.pool = Tail(S.pool)],
        ret |-> 0]

\* position in the chain of the first meta with free_objects # 0, 0 if none
RECURSIVE FirstWithFree(_, _, _)
FirstWithFree(S, chain, k) ==
    IF k > Len(chain) THEN 0
    ELSE IF S.metas[chain[k]].free_objects # 0 THEN k
    ELSE FirstWithFree(S, chain, k + 1)

\* the head promotion of pbuddy_alloc: current and the head trade places
Promote(chain, k) ==
    IF k = 1 THEN chain
    ELSE [j \in 1..Len(chain) |->
            IF j = 1 THEN chain[k] ELSE IF j = k THEN chain[1] ELSE chain[j]]

RECURSIVE pbuddy_alloc_retry(_, _)
pbuddy_alloc_retry(S, exp) ==
    LET k == FirstWithFree(S, S.head, 1)
    IN
    IF k = 0 THEN [S |-> S, ret |-> NULL, splits |-> 0, region |-> 0]
    ELSE
    LET S1 == [S EXCEPT !.head = Promote(S.head, k)]
        r == S.head[k]
    IN CHOOSE res \in
         { IF a.ret # NULL \/ a.S.fault # "none"
           THEN [S |-> a.S, ret |-> a.ret, splits |-> a.splits, region |-> r]
           ELSE CHOOSE res2 \in
                  { IF ini.ret = 0 THEN pbuddy_alloc_retry(ini.S, exp)
                    ELSE [S |-> a.S, ret |-> NULL, splits |-> a.splits, region |-> r] :
                    ini \in {init_pbuddy(a.S, pmm_alloc_region(a.S), a.S.exp,
                                         a.S.min_exp)} } : TRUE :
           a \in {pbuddy_acquire(S1, r, exp)} } : TRUE

pbuddy_alloc(S, size0) ==
    LET size == SIZE_T_NEXT_POW2(size0)
        exp == Ctz(size)
    IN
    IF S.head = <<>> \/ exp < S.min_exp \/ exp > S.exp
    THEN [S |-> S, ret |-> NULL, splits |-> 0, region |-> 0]
    ELSE pbuddy_alloc_retry(S, exp)

\* first meta of the chain that ADDRESS_IN_META accepts, 0 if none
RECURSIVE FindMeta(_, _, _, _)
FindMeta(S, chain, k, address) ==
    IF k > Len(chain) THEN 0
    ELSE IF PB_ADDRESS_IN_META(address, S.metas[chain[k]], S.exp) THEN chain[k]
    ELSE FindMeta(S, chain, k + 1, address)

pbuddy_free(S, address) ==
    IF address = NULL THEN [S |-> S, ret |-> 0]
    ELSE
    LET r == FindMeta(S, S.head, 1, address)
    IN IF r = 0 THEN [S |-> S, ret |-> 0]
       ELSE pbuddy_release(S, r, address)

(***************************************************************************)
(* The buddy list after init_pbuddy on its first region.                   *)
(***************************************************************************)
PBEmpty ==
    [head |-> <<>>, exp |-> -1, min_exp |-> 0,
     metas |-> [r \in {} |-> NULL],
     canary_low |-> [a \in Units |-> CLEARED],
     canary_high |-> [a \in Units |-> CLEARED],
     next |-> [a \in Units |-> NULL],
     pool |-> [k \in 1..MaxRegions |-> RegionBase(k)],
     order_lock |-> 0,
     fault |-> "none"]

PBInit == init_pbuddy(PBEmpty, pmm_alloc_region(PBEmpty), MaxExp, MinExp).S

\* the region r is as init_pbuddy left it
IsFresh(S, r) ==
    /\ S.metas[r] = FreshMeta(r, S.exp, S.min_exp)
    /\ CanariesValid(S, r)
    /\ S.next[r] = NULL

InitPB ==
    /\ pb = PBInit
    /\ fl = Idle /\ pm = Idle /\ ga = Idle /\ vm = Idle /\ pw = Idle /\ th = Idle
    /\ GhostInit

\* request sizes: each power of two of the region, and one size in between
AllocSizes == { 2^e : e \in MinExp..MaxExp } \cup { 2^MinExp + 1 }

PBuddyAlloc(size) ==
    /\ pb.fault = "none"
    /\ nops < MaxOps
    /\ \E a \in {pbuddy_alloc(pb, size)} :
          /\ pb' = a.S
          /\ op' = [MkOp("alloc", size, NULL, a.ret) EXCEPT
                      !.splits = a.splits, !.region = a.region,
                      !.fresh = a.region # 0 /\
                                (a.region \in Range(pb.pool) \/ IsFresh(pb, a.region))]
          /\ live' = IF a.ret = NULL THEN live
                     ELSE live \cup {<<a.ret, SIZE_T_NEXT_POW2(size)>>}
          /\ freed' = freed \ {a.ret}
    /\ nops' = nops + 1
    /\ UNCHANGED NotPB

\* the caller frees a block it holds
PBuddyFree(p) ==
    /\ pb.fault = "none"
    /\ nops < MaxOps
    /\ \E b \in live : b[1] = p
    /\ \E f \in {pbuddy_free(pb, p)} :
          /\ pb' = f.S
          /\ op' = MkOp("free", 0, p, f.ret)
          /\ live' = { b \in live : b[1] # p }
          /\ freed' = freed \cup {p}
    /\ nops' = nops + 1
    /\ UNCHANGED NotPB

\* the caller frees again a block it has freed and not been handed since
PBuddyFreeAgain(p) ==
    /\ pb.fault = "none"
    /\ nops < MaxOps
    /\ p \in freed
    /\ \E f \in {pbuddy_free(pb, p)} :
          /\ pb' = f.S
          /\ op' = [MkOp("free_again", 0, p, f.ret) EXCEPT !.same = (f.S = pb)]
    /\ nops' = nops + 1
    /\ UNCHANGED <<NotPB, live, freed>>

\* the caller writes over a block it holds (memset(p, 0, size))
Scribble(p) ==
    /\ pb.fault = "none"
    /\ \E b \in live : b[1] = p
    /\ nops < MaxOps
    /\ pb.canary_low[p] # CLEARED \/ pb.canary_high[p] # CLEARED
    /\ pb' = [pb EXCEPT !.canary_low[p] = CLEARED, !.canary_high[p] = CLEARED,
                        !.next[p] = NULL]
    /\ nops' = nops + 1
    /\ UNCHANGED <<NotPB, live, freed, op>>

NextPB ==
    \/ \E size \in AllocSizes : PBuddyAlloc(size)
    \/ \E p \in Units : PBuddyFree(p)
    \/ \E p \in Units : Scribble(p)

\* the buddy allocator under callers that free only what they hold
SpecPB == InitPB /\ [][NextPB]_vars

NextPBAgain ==
    \/ NextPB
    \/ \E p \in Units : PBuddyFreeAgain(p)

\* the buddy allocator under callers that may free a block twice
SpecPBAgain == InitPB /\ [][NextPBAgain]_vars

(***************************************************************************)
(* The buddy list under callers whose requests range below 2^min_exp and   *)
(* above 2^exp; op keeps the list as it was before the call.               *)
(***************************************************************************)
\* request sizes: those of AllocSizes, one below 2^min_exp, one above 2^exp
PbxSizes == AllocSizes \cup { 2^(MinExp - 1), 2^(MaxExp + 1) }

PbxAlloc(size) ==
    /\ pb.fault = "none"
    /\ nops < MaxOps
    /\ \E a \in {pbuddy_alloc(pb, size)} :
          /\ pb' = a.S
          /\ op' = [MkOp("alloc", size, NULL, a.ret) EXCEPT
                      !.splits = a.splits, !.region = a.region,
                      !.same = (a.S = pb), !.pre = pb]
          /\ live' = IF a.ret = NULL THEN live
                     ELSE live \cup {<<a.ret, SIZE_T_NEXT_POW2(size)>>}
          /\ freed' = freed \ {a.ret}
    /\ nops' = nops + 1
    /\ UNCHANGED NotPB

\* the caller frees a block it holds
PbxFree(p) ==
    /\ pb.fault = "none"
    /\ nops < MaxOps
    /\ \E b \in live : b[1] = p
    /\ \E f \in {pbuddy_free(pb, p)} :
          /\ pb' = f.S
          /\ op' = [MkOp("free", 0, p, f.ret) EXCEPT
                      !.same = (f.S = pb), !.pre = pb]
          /\ live' = { b \in live : b[1] # p }
          /\ freed' = freed \cup {p}
    /\ nops' = nops + 1
    /\ UNCHANGED NotPB

\* the caller passes an address that starts no block it holds: a unit inside
\* a block, a unit of a free block, or the first unit past a region
PbxFreeBad(p) ==
    /\ pb.fault = "none"
    /\ nops < MaxOps
    /\ \A b \in live : b[1] # p
    /\ \E f \in {pbuddy_free(pb, p)} :
          /\ pb' = f.S
          /\ op' = [MkOp("free_bad", 0, p, f.ret) EXCEPT
                      !.same = (f.S = pb), !.pre = pb]
    /\ nops' = nops + 1
    /\ UNCHANGED <<NotPB, live, freed>>

NextPBX ==
    \/ \E size \in PbxSizes : PbxAlloc(size)
    \/ \E p \in Units : PbxFree(p)
    \/ \E p \in Units : Scribble(p)

\* the buddy allocator under callers that free only what they hold
SpecPBX == InitPB /\ [][NextPBX]_vars

NextPBBad ==
    \/ NextPBX
    \/ \E p \in Units : PbxFreeBad(p)

\* the buddy allocator under callers that may free any address
SpecPBBad == InitPB /\ [][NextPBBad]_vars

(***************************************************************************)
(* pfreelist.h, pfreelist.c                                                *)
(*                                                                         *)
(* F is [metas, next, fault]: the ARC_PFreelistMeta headers, keyed by the  *)
(* address they are laid at, and the next word of every object slot.       *)
(* uint64_t counters are kept as integers near 0: v < 0 stands for         *)
(* 2^64 + v, the value the counter wraps to.                               *)
(***************************************************************************)
\* sizeof(struct ARC_PFreelistMeta): five words aligned to 8 and the lock
SizeofPFreelistMeta == 48
\* restarts after which pfreelist_contig_alloc gives up
ContigFailLimit == 16

U64Lt(a, b) == IF a < 0 THEN b < 0 /\ a < b ELSE b < 0 \/ a < b

Abs(x) == IF x < 0 THEN -x ELSE x

\* ADDRESS_IN_META(address, meta)
FL_ADDRESS_IN_META(address, meta) ==
    meta.base <= address /\ address <= meta.ceil

init_pfreelist(F, base0, ceil0, object_size) ==
    IF base0 > ceil0 \/ object_size = 0 THEN [F |-> F, ret |-> NULL]
    ELSE IF ceil0 - base0 < object_size + SizeofPFreelistMeta
    THEN [F |-> F, ret |-> NULL]
    ELSE
    LET objects == (SizeofPFreelistMeta \div object_size) + 1
        base == base0 + objects * object_size
        ceil == ceil0 - object_size
        meta == [head |-> base, base |-> base, ceil |-> ceil,
                 object_size |-> object_size,
                 free_objects |-> ((ceil - base) \div object_size) - objects + 1,
                 next |-> NULL]
        nodes == { a \in DOMAIN F.next :
                     base <= a /\ a < ceil /\ (a - base) % object_size = 0 }
    IN
    IF nodes = {}
    THEN \* the loop never ran: the terminating store goes through NULL
         [F |-> [F EXCEPT !.metas[base0] = meta, !.fault = "null"], ret |-> base0]
    ELSE [F |-> [F EXCEPT !.metas[base0] = meta,
                          !.next = [a \in DOMAIN F.next |->
                                      IF a \notin nodes THEN F.next[a]
                                      ELSE IF a + object_size < ceil
                                      THEN a + object_size ELSE NULL]],
          ret |-> base0]

\* while (meta != NULL && meta->free_objects < 1) meta = meta->next;
RECURSIVE FlSkipEmpty(_, _)
FlSkipEmpty(F, m) ==
    IF m # NULL /\ U64Lt(F.metas[m].free_objects, 1)
    THEN FlSkipEmpty(F, F.metas[m].next) ELSE m

pfreelist_alloc(F, m0) ==
    LET m == FlSkipEmpty(F, m0)
    IN
    IF m = NULL \/ F.metas[m].head = NULL THEN [F |-> F, ret |-> NULL]
    ELSE
    LET node == F.metas[m].head
    IN [F |-> [F EXCEPT !.metas[m].head = F.next[node],
                        !.metas[m].free_objects = @ - 1],
        ret |-> node]

\* while (meta != NULL && !ADDRESS_IN_META(address, meta)) meta = meta->next;
RECURSIVE FlFind(_, _, _)
FlFind(F, m, address) ==
    IF m # NULL /\ ~FL_ADDRESS_IN_META(address, F.metas[m])
    THEN FlFind(F, F.metas[m].next, address) ELSE m

pfreelist_free(F, m0, address) ==
    IF m0 = NULL \/ address = NULL THEN [F |-> F, ret |-> NULL]
    ELSE
    LET m == FlFind(F, m0, address)
    IN
    IF m = NULL THEN [F |-> F, ret |-> NULL]
    ELSE IF address \notin DOMAIN F.next
    THEN [F |-> [F EXCEPT !.fault = "oob"], ret |-> NULL]
    ELSE [F |-> [F EXCEPT !.next[address] = F.metas[m].head,
                          !.metas[m].head = address,
                          !.metas[m].free_objects = @ + 1],
          ret |-> address]

\* the loop of pfreelist_contig_free: push address + i * object_size for
\* i < objects onto head; oob when a store leaves the slots of the model
RECURSIVE ContigPush(_, _, _, _, _, _)
ContigPush(nxt, head, address, object_size, i, objects) ==
    IF i >= objects THEN [next |-> nxt, head |-> head, oob |-> FALSE]
    ELSE
    LET node == address + i * object_size
    IN IF node \notin DOMAIN nxt THEN [next |-> nxt, head |-> head, oob |-> TRUE]
       ELSE ContigPush([nxt EXCEPT ![node] = head], node, address, object_size,
                       i + 1, objects)

\* pfreelist_contig_free once the meta is found; meta may be a local header
ContigFreeInto(nxt, meta, address, objects) ==
    CHOOSE res \in
      { [next |-> cp.next,
         meta |-> [meta EXCEPT !.head = cp.head, !.free_objects = @ + objects],
         oob |-> cp.oob] :
        cp \in {ContigPush(nxt, meta.head, address, meta.object_size, 0, objects)} }
      : TRUE

pfreelist_contig_free(F, m0, address, objects) ==
    IF m0 = NULL \/ address = NULL THEN [F |-> F, ret |-> NULL]
    ELSE
    LET m == FlFind(F, m0, address)
    IN
    IF m = NULL THEN [F |-> F, ret |-> NULL]
    ELSE
    CHOOSE res \in
      { [F |-> [F EXCEPT !.next = cf.next, !.metas[m] = cf.meta,
                         !.fault = IF cf.oob THEN "oob" ELSE @],
         ret |-> address] :
        cf \in {ContigFreeInto(F.next, F.metas[m], address, objects)} } : TRUE

\* while (meta->free_objects < objects && meta != NULL) meta = meta->next;
\* the counter is read before meta is tested: "deref" when the chain ends
RECURSIVE FlSkipSmall(_, _, _)
FlSkipSmall(F, m, objects) ==
    IF m = NULL THEN [m |-> NULL, deref |-> TRUE]
    ELSE IF U64Lt(F.metas[m].free_objects, objects)
    THEN FlSkipSmall(F, F.metas[m].next, objects)
    ELSE [m |-> m, deref |-> FALSE]

\* the locals of pfreelist_contig_alloc after allocation = pfreelist_alloc(meta)
\* and the first-allocation bookkeeping
ContigTake(L, a) ==
    IF L.to_free.head = NULL
    THEN [L EXCEPT !.F = a.F, !.allocation = a.ret, !.to_free.head = a.ret,
                   !.bottom_allocation = a.ret, !.base = a.ret,
                   !.popped = Append(@, a.ret)]
    ELSE [L EXCEPT !.F = a.F, !.allocation = a.ret, !.popped = Append(@, a.ret)]

\* pfreelist_contig_free(&to_free, base, object_count + 1) and the restart
ContigRestart(L) ==
    LET R == [L EXCEPT !.base = L.allocation, !.fails = @ + 1,
                       !.object_count = 0, !.last_allocation = NULL]
    IN IF L.base # NULL /\ FL_ADDRESS_IN_META(L.base, L.to_free)
       THEN CHOOSE res \in
              { [R EXCEPT !.F.next = cf.next, !.to_free = cf.meta,
                          !.F.fault = IF cf.oob THEN "oob" ELSE @] :
                cf \in {ContigFreeInto(L.F.next, L.to_free, L.base,
                                       L.object_count + 1)} } : TRUE
       ELSE R

\* if (last_allocation != NULL && abs(last_allocation - allocation) != object_size)
ContigCheck(L, m) ==
    IF /\ L.last_allocation # NULL
       /\ Abs(L.last_allocation - L.allocation) # L.F.metas[m].object_size
    THEN ContigRestart(L) ELSE L

\* the allocation loop of pfreelist_contig_alloc over its locals L
RECURSIVE ContigLoop(_, _, _)
ContigLoop(L, m, objects) ==
    IF ~(L.object_count < objects) \/ L.F.fault # "none" THEN L
    ELSE CHOOSE r \in
           { IF L2.fails >= ContigFailLimit THEN L2
             ELSE ContigLoop([L2 EXCEPT !.last_allocation = L2.allocation,
                                        !.object_count = @ + 1], m, objects) :
             L2 \in {ContigCheck(ContigTake(L, pfreelist_alloc(L.F, m)), m)} } : TRUE

\* while (current->next != bottom_allocation) { pfreelist_free(meta, current); ... }
RECURSIVE ContigFreeBack(_, _, _, _, _)
ContigFreeBack(F, m, current, bottom, seen) ==
    IF current = NULL \/ current \notin DOMAIN F.next
    THEN [F EXCEPT !.fault = "null"]
    ELSE IF F.next[current] = bottom THEN F
    ELSE IF current \in seen THEN [F EXCEPT !.fault = "hang"]
    ELSE ContigFreeBack(pfreelist_free(F, m, current).F, m, F.next[current],
                        bottom, seen \cup {current})

ContigFinish(L, m, objects) ==
    LET F1 == [L.F EXCEPT !.metas[m].free_objects = @ - objects]
        ret == Min2(L.base, L.allocation)
    IN
    IF L.F.fault # "none"
    THEN [F |-> L.F, ret |-> NULL, fails |-> L.fails, popped |-> L.popped]
    ELSE IF L.fails = 0
    THEN [F |-> F1, ret |-> ret, fails |-> 0, popped |-> L.popped]
    ELSE [F |-> ContigFreeBack(F1, m, L.bottom_allocation, L.bottom_allocation, {}),
          ret |-> ret, fails |-> L.fails, popped |-> L.popped]

ContigStart(F, m) ==
    [F |-> F,
     to_free |-> [head |-> NULL, base |-> F.metas[m].base, ceil |-> F.metas[m].ceil,
                  object_size |-> F.metas[m].object_size, free_objects |-> 0,
                  next |-> NULL],
     object_count |-> 0, fails |-> 0, last_allocation |-> NULL,
     base |-> NULL, bottom_allocation |-> NULL, allocation |-> NULL,
     popped |-> <<>>]

pfreelist_contig_alloc(F, m0, objects) ==
    CHOOSE res \in
      { IF sk.deref
        THEN [F |-> [F EXCEPT !.fault = "null"], ret |-> NULL, fails |-> 0,
              popped |-> <<>>]
        ELSE CHOOSE res2 \in
               { ContigFinish(L, sk.m, objects) :
                 L \in {ContigLoop(ContigStart(F, sk.m), sk.m, objects)} } : TRUE :
        sk \in {FlSkipSmall(F, m0, objects)} } : TRUE

(***************************************************************************)
(* One freelist region, as init_pfreelist lays it over a range.            *)
(***************************************************************************)
\* length of the range in 64-byte units
FlUnits == 6
\* objects one pfreelist_contig_alloc may ask for
MaxContig == 2
\* calls of entry points in one run of the freelist model
MaxFlOps == 5

FlBase == 64 * 16
FlCeil == FlBase + 64 * FlUnits
\* object sizes of the two smallest kinds: below and above the header size
FlObjectSizes == {16, 64}
FlAddrs == { FlBase + 16 * k : k \in 0..(4 * FlUnits - 1) }

FlEmpty ==
    [metas |-> [b \in {FlBase} |-> NULL],
     next |-> [a \in FlAddrs |-> NULL],
     fault |-> "none"]

InitFL ==
    /\ \E object_size \in FlObjectSizes :
          fl = init_pfreelist(FlEmpty, FlBase, FlCeil, object_size).F
    /\ pb = Idle /\ pm = Idle /\ ga = Idle /\ vm = Idle /\ pw = Idle /\ th = Idle
    /\ GhostInit

FlObjectSize == fl.metas[FlBase].object_size

FlAlloc ==
    /\ fl.fault = "none"
    /\ nops < MaxFlOps
    /\ \E a \in {pfreelist_alloc(fl, FlBase)} :
          /\ fl' = a.F
          /\ op' = [MkOp("fl_alloc", FlObjectSize, NULL, a.ret) EXCEPT
                      !.cnt0 = fl.metas[FlBase].free_objects,
                      !.cnt1 = a.F.metas[FlBase].free_objects,
                      !.prevkind = op.kind, !.prevaddr = op.addr]
          /\ live' = IF a.ret = NULL THEN live
                     ELSE live \cup {<<a.ret, FlObjectSize>>}
          /\ freed' = freed \ {a.ret}
    /\ nops' = nops + 1
    /\ UNCHANGED NotFL

\* the caller frees an object it holds
FlFree(p) ==
    /\ fl.fault = "none"
    /\ nops < MaxFlOps
    /\ <<p, FlObjectSize>> \in live
    /\ \E f \in {pfreelist_free(fl, FlBase, p)} :
          /\ fl' = f.F
          /\ op' = [MkOp("fl_free", FlObjectSize, p, f.ret) EXCEPT
                      !.cnt0 = fl.metas[FlBase].free_objects,
                      !.cnt1 = f.F.metas[FlBase].free_objects]
          /\ live' = live \ {<<p, FlObjectSize>>}
          /\ freed' = freed \cup {p}
    /\ nops' = nops + 1
    /\ UNCHANGED NotFL

\* the caller frees again an object it has freed and not been handed since
FlFreeAgain(p) ==
    /\ fl.fault = "none"
    /\ nops < MaxFlOps
    /\ p \in freed
    /\ \E f \in {pfreelist_free(fl, FlBase, p)} :
          /\ fl' = f.F
          /\ op' = [MkOp("fl_free_again", FlObjectSize, p, f.ret) EXCEPT
                      !.same = (f.F = fl)]
    /\ nops' = nops + 1
    /\ UNCHANGED <<NotFL, live, freed>>

FlContigAlloc(objects) ==
    /\ fl.fault = "none"
    /\ nops < MaxFlOps
    /\ \E a \in {pfreelist_contig_alloc(fl, FlBase, objects)} :
          /\ fl' = a.F
          /\ op' = [MkOp("fl_contig_alloc", objects * FlObjectSize, NULL, a.ret)
                      EXCEPT !.splits = a.fails, !.cnt0 = objects,
                             !.pre = fl]
          /\ live' = IF a.ret = NULL THEN live
                     ELSE live \cup {<<a.ret, objects * FlObjectSize>>}
          /\ freed' = freed \ {a.ret}
    /\ nops' = nops + 1
    /\ UNCHANGED NotFL

\* the caller frees a run of objects it was handed by pfreelist_contig_alloc
FlContigFree(p, objects) ==
    /\ fl.fault = "none"
    /\ nops < MaxFlOps
    /\ objects > 1
    /\ <<p, objects * FlObjectSize>> \in live
    /\ \E f \in {pfreelist_contig_free(fl, FlBase, p, objects)} :
          /\ fl' = f.F
          /\ op' = MkOp("fl_contig_free", objects * FlObjectSize, p, f.ret)
          /\ live' = live \ {<<p, objects * FlObjectSize>>}
          /\ freed' = freed \cup {p}
    /\ nops' = nops + 1
    /\ UNCHANGED NotFL

NextFL ==
    \/ FlAlloc
    \/ \E p \in FlAddrs : FlFree(p)
    \/ \E objects \in 1..MaxContig : FlContigAlloc(objects)
    \/ \E p \in FlAddrs : \E objects \in 1..MaxContig : FlContigFree(p, objects)

\* one freelist region under callers that free only what they hold
SpecFL == InitFL /\ [][NextFL]_vars

NextFLAgain ==
    \/ NextFL
    \/ \E p \in FlAddrs : FlFreeAgain(p)

\* one freelist region under callers that may free an object twice
SpecFLAgain == InitFL /\ [][NextFLAgain]_vars

(***************************************************************************)
(* One freelist region in use. Its callers first take every object with    *)
(* pfreelist_alloc, then free them all with pfreelist_free, the objects at *)
(* even positions first and those at odd positions after them, both from   *)
(* the top down: no two neighbours of the free chain are then neighbours   *)
(* in memory except where the two halves meet. After that the callers      *)
(* call any entry point. th is the callers' phase and the objects they     *)
(* have still to free.                                                     *)
(***************************************************************************)
\* length of the region in 64-byte units
FragUnits == 10
\* calls of entry points after the region was filled and drained
MaxFragOps == 4

\* object size of the region
FragObjectSize == 16
FragCeil == FlBase + 64 * FragUnits
FragAddrs == { FlBase + 16 * k : k \in 0..(4 * FragUnits - 1) }

FragEmpty ==
    [metas |-> [b \in {FlBase} |-> NULL],
     next |-> [a \in FragAddrs |-> NULL],
     fault |-> "none"]

\* the objects got in the order the callers free them
FragOrder(got) ==
    [j \in 1..Len(got) |->
       IF j <= Len(got) \div 2
       THEN got[2 * (Len(got) \div 2 - j) + 2]
       ELSE got[2 * (Len(got) - j) + 1]]

InitFLFrag ==
    /\ fl = init_pfreelist(FragEmpty, FlBase, FragCeil, FragObjectSize).F
    /\ th = [phase |-> "fill", objs |-> <<>>]
    /\ pb = Idle /\ pm = Idle /\ ga = Idle /\ vm = Idle /\ pw = Idle
    /\ GhostInit

\* the callers take one more object, or find the list empty
FragFill ==
    /\ fl.fault = "none"
    /\ th.phase = "fill"
    /\ \E a \in {pfreelist_alloc(fl, FlBase)} :
          /\ fl' = a.F
          /\ op' = MkOp("fl_alloc", FlObjectSize, NULL, a.ret)
          /\ live' = IF a.ret = NULL THEN live
                     ELSE live \cup {<<a.ret, FlObjectSize>>}
          /\ th' = IF a.ret = NULL
                   THEN [phase |-> "drain", objs |-> FragOrder(th.objs)]
                   ELSE [th EXCEPT !.objs = Append(@, a.ret)]
    /\ UNCHANGED <<pb, pm, ga, vm, pw, freed, nops>>

\* the callers free the next object
FragDrain ==
    /\ fl.fault = "none"
    /\ th.phase = "drain"
    /\ th.objs # <<>>
    /\ \E f \in {pfreelist_free(fl, FlBase, Head(th.objs))} :
          /\ fl' = f.F
          /\ op' = MkOp("fl_free", FlObjectSize, Head(th.objs), f.ret)
    /\ live' = live \ {<<Head(th.objs), FlObjectSize>>}
    /\ freed' = freed \cup {Head(th.objs)}
    /\ th' = IF Len(th.objs) = 1 THEN [phase |-> "use", objs |-> <<>>]
             ELSE [th EXCEPT !.objs = Tail(@)]
    /\ UNCHANGED <<pb, pm, ga, vm, pw, nops>>

FragAlloc == th.phase = "use" /\ nops < MaxFragOps /\ FlAlloc
FragFree(p) == th.phase = "use" /\ nops < MaxFragOps /\ FlFree(p)
FragContigAlloc(objects) ==
    th.phase = "use" /\ nops < MaxFragOps /\ FlContigAlloc(objects)
FragContigFree(p, objects) ==
    th.phase = "use" /\ nops < MaxFragOps /\ FlContigFree(p, objects)

NextFLFrag ==
    \/ FragFill
    \/ FragDrain
    \/ FragAlloc
    \/ \E p \in FragAddrs : FragFree(p)
    \/ \E objects \in 1..MaxContig : FragContigAlloc(objects)
    \/ \E p \in FragAddrs : \E objects \in 1..MaxContig : FragContigFree(p, objects)

\* the freelist region under callers that free only what they hold
SpecFLFrag == InitFLFrag /\ [][NextFLFrag]_vars

(***************************************************************************)
(* pmm.c                                                                   *)
(*                                                                         *)
(* P is the state of the physical memory manager: the bias tables, the     *)
(* per-exponent freelists and buddy lists of the low and the high region   *)
(* (indexed by low \in BOOLEAN), the two fast-page pools, and the memory   *)
(* the allocators thread their lists through. The smallest page is         *)
(* 2^MinExp bytes and the largest bias exponent is MaxExp, so that the     *)
(* node_metas table of a buddy of exponent MaxExp fills one page, as it    *)
(* does for exponents 21 and 12.                                           *)
(***************************************************************************)
PAGE_SIZE_LOWEST_EXPONENT == MinExp
PAGE_SIZE == 2^PAGE_SIZE_LOWEST_EXPONENT
Exps == 0..MaxExp

\* the memory map: a low entry, an entry the bootstrap watermark uses up,
\* and a high entry of eight blocks of 2^MaxExp bytes
ARC_PMM_LOW_MEM_LIM == 2 * 2^MaxExp
\* 2 pages and four page-aligned tables
WatermarkSize == 6 * PAGE_SIZE
BootMMap ==
    << [base |-> 2^MaxExp, len |-> 2^MaxExp, type |-> "available"],
       [base |-> 2 * 2^MaxExp, len |-> WatermarkSize, type |-> "available"],
       [base |-> 3 * 2^MaxExp, len |-> 2^MaxExp, type |-> "reserved"],
       [base |-> 4 * 2^MaxExp, len |-> 8 * 2^MaxExp, type |-> "available"] >>
PmmAddrs == { 2^MaxExp + k * PAGE_SIZE : k \in 0..(11 * 2^Depth - 1) }

\* struct ARC_PMMBiasConfigElement
Bias(exp, min_blocks, numerator, denominator, min_buddy_exp) ==
    [exp |-> exp, min_blocks |-> min_blocks, numerator |-> numerator,
     denominator |-> denominator, min_buddy_exp |-> min_buddy_exp]

\* bias tables of the high region: the largest exponent alone, and the
\* largest exponent followed by the page exponent
BiasTablesHigh ==
    { << Bias(MaxExp, 1, 1, 2, MinExp) >>,
      << Bias(MaxExp, 1, 1, 2, MinExp), Bias(MinExp, 1, 1, 2, MinExp) >> }
\* bias table of the low region: pages only
pmm_biases_low == << Bias(MinExp, 1, 1, 1, MinExp) >>

ALIGN(v, a) == ((v + a - 1) \div a) * a

\* a zeroed struct ARC_PBuddy
PmmNoBuddy == [head |-> <<>>, exp |-> 0, min_exp |-> 0,
               metas |-> [r \in {} |-> NULL], has_metas |-> FALSE]

\* a zeroed struct ARC_PFreelistMeta
PmmNoFreelist ==
    [head |-> NULL, base |-> NULL, ceil |-> NULL, object_size |-> 0,
     free_objects |-> 0, next |-> NULL]

PmmEmpty(biases_high) ==
    [biases |-> [low \in BOOLEAN |-> IF low THEN pmm_biases_low ELSE biases_high],
     fl |-> [metas |-> [b \in PmmAddrs |-> PmmNoFreelist],
             next |-> [a \in PmmAddrs |-> NULL],
             fault |-> "none"],
     freelists |-> [low \in BOOLEAN |-> [e \in Exps |-> NULL]],
     buddies |-> [low \in BOOLEAN |-> [e \in Exps |-> PmmNoBuddy]],
     canary_low |-> [a \in PmmAddrs |-> CLEARED],
     canary_high |-> [a \in PmmAddrs |-> CLEARED],
     next |-> [a \in PmmAddrs |-> NULL],
     fast |-> [low \in BOOLEAN |-> [pool |-> NULL, count |-> 0, allocated |-> 0]],
     watermark |-> [base |-> NULL, size |-> 0],
     fault |-> "none"]

\* the search of init_pmm for the entry that holds the bootstrap watermark
RECURSIVE WatermarkEntry(_, _)
WatermarkEntry(mmap, i) ==
    IF i > Len(mmap) THEN 0
    ELSE IF \/ mmap[i].type # "available"
            \/ mmap[i].len < WatermarkSize
            \/ mmap[i].base < ARC_PMM_LOW_MEM_LIM
    THEN WatermarkEntry(mmap, i + 1)
    ELSE i

\* the memory map as init_pmm leaves it after carving the watermark
CarveWatermark(mmap, i) ==
    IF i = 0 THEN mmap
    ELSE IF mmap[i].len = WatermarkSize THEN [mmap EXCEPT ![i].type = "reserved"]
    ELSE [mmap EXCEPT ![i].base = @ + WatermarkSize, ![i].len = @ - WatermarkSize]

\* init_pfreelist(&freelists[bias], base, base + range_len, object_size)
PmmInitFreelist(P, low, bias, base, range_len) ==
    CHOOSE res \in
      { IF r.ret = NULL THEN P
        ELSE [P EXCEPT !.fl = r.F, !.freelists[low][bias] = r.ret] :
        r \in {init_pfreelist(P.fl, base, base + range_len, 2^bias)} } : TRUE

\* the loop of pmm_create_freelists over the biases of one entry
RECURSIVE CarveBiases(_, _, _, _, _)
CarveBiases(P, low, j, base, len) ==
    IF j > Len(P.biases[low]) THEN [P |-> P, base |-> base, len |-> len]
    ELSE
    LET b == P.biases[low][j]
        object_size == 2^b.exp
        want == ALIGN((len * b.numerator) \div b.denominator, object_size)
        range_len == IF want > len THEN (len \div object_size) * object_size ELSE want
    IN IF b.numerator = 0 \/ len < b.min_blocks * object_size
       THEN CarveBiases(P, low, j + 1, base, len)
       ELSE CHOOSE r \in { CarveBiases(Q, low, j + 1, base + range_len, len - range_len) :
                           Q \in {PmmInitFreelist(P, low, b.exp, base, range_len)} } : TRUE

\* the residual of an entry threaded as fast pages in front of the pool
ThreadFastPages(P, low, base, ceil, len) ==
    IF base = ceil THEN P
    ELSE
    LET pages == { a \in PmmAddrs : base <= a /\ a < ceil /\ (a - base) % PAGE_SIZE = 0 }
        last == CHOOSE a \in pages : \A c \in pages : c <= a
    IN [P EXCEPT !.fl.next = [a \in PmmAddrs |->
                                IF a \notin pages THEN P.fl.next[a]
                                ELSE IF a = last THEN P.fast[low].pool
                                ELSE a + PAGE_SIZE],
                 !.fast[low].count = @ + (len \div PAGE_SIZE),
                 !.fast[low].pool = base]

PmmCreateEntry(P, entry) ==
    LET low == entry.base < ARC_PMM_LOW_MEM_LIM
    IN CHOOSE r \in { ThreadFastPages(c.P, low, c.base, entry.base + entry.len, c.len) :
                      c \in {CarveBiases(P, low, 1, entry.base, entry.len)} } : TRUE

RECURSIVE pmm_create_freelists(_, _, _)
pmm_create_freelists(P, mmap, i) ==
    IF i > Len(mmap) THEN P
    ELSE IF mmap[i].type # "available" THEN pmm_create_freelists(P, mmap, i + 1)
    ELSE CHOOSE r \in { pmm_create_freelists(Q, mmap, i + 1) :
                        Q \in {PmmCreateEntry(P, mmap[i])} } : TRUE

init_pmm(biases_high, mmap) ==
    LET w == WatermarkEntry(mmap, 1)
        P0 == PmmEmpty(biases_high)
        P1 == IF w = 0 THEN P0
              ELSE [P0 EXCEPT !.watermark = [base |-> mmap[w].base,
                                             size |-> WatermarkSize]]
    IN pmm_create_freelists(P1, CarveWatermark(mmap, w), 1)

\* pmm_fast_page_alloc: always the pool of the high region
pmm_fast_page_alloc(P) ==
    LET f == P.fast[FALSE]
    IN IF f.count = f.allocated
       THEN \* pmm_alloc_fast_pages(16, false) returns -1
            [P |-> P, ret |-> NULL]
       ELSE IF f.pool = NULL
       THEN \* goto retry with nothing changed
            [P |-> [P EXCEPT !.fault = "hang"], ret |-> NULL]
       ELSE [P |-> [P EXCEPT !.fast[FALSE].pool = P.fl.next[f.pool],
                             !.fast[FALSE].allocated = @ + 1],
             ret |-> f.pool]

\* pmm_fast_page_free: always the pool of the high region
pmm_fast_page_free(P, address) ==
    IF address = NULL THEN [P |-> P, ret |-> 0]
    ELSE IF address \notin PmmAddrs
    THEN [P |-> [P EXCEPT !.fault = "oob"], ret |-> PAGE_SIZE]
    ELSE [P |-> [P EXCEPT !.fl.next[address] = P.fast[FALSE].pool,
                          !.fast[FALSE].pool = address,
                          !.fast[FALSE].allocated = @ - 1],
          ret |-> PAGE_SIZE]

\* the bias loop of pmm_internal_alloc; t = -1 stands for UINT32_MAX
RECURSIVE BiasSelect(_, _, _, _)
BiasSelect(biases, i, size_exponent, tb) ==
    IF i > Len(biases) THEN tb
    ELSE IF /\ (tb.t = -1 \/ biases[i].exp < tb.t)
            /\ (tb.t = -1 \/ tb.t > size_exponent)
    THEN BiasSelect(biases, i + 1, size_exponent,
                    [t |-> biases[i].exp, buddy_min_exp |-> biases[i].min_buddy_exp])
    ELSE BiasSelect(biases, i + 1, size_exponent, tb)

\* buddies[t] of one region with the memory, as the buddy operators take it
PmmBuddy(P, low, t, pool) ==
    LET b == P.buddies[low][t]
    IN [head |-> b.head, exp |-> b.exp, min_exp |-> b.min_exp, metas |-> b.metas,
        canary_low |-> P.canary_low, canary_high |-> P.canary_high,
        next |-> P.next, pool |-> pool, fault |-> P.fault]

PmmPutBuddy(P, low, t, S) ==
    [P EXCEPT !.buddies[low][t] = [head |-> S.head, exp |-> S.exp,
                                   min_exp |-> S.min_exp, metas |-> S.metas,
                                   has_metas |-> @.has_metas],
              !.canary_low = S.canary_low, !.canary_high = S.canary_high,
              !.next = S.next, !.fault = S.fault]

\* pbuddy_get_new_meta: the first meta of a list takes a fast page for the
\* list's freelist of metas; init_pfreelist over a null page writes at 0
PmmGetNewMeta(P, low, t) ==
    IF P.buddies[low][t].has_metas THEN [P |-> P, ret |-> 0]
    ELSE
    CHOOSE res \in
      { IF pg.P.fault # "none" THEN [P |-> pg.P, ret |-> -2]
        ELSE IF pg.ret = NULL THEN [P |-> [pg.P EXCEPT !.fault = "null"], ret |-> -2]
        ELSE [P |-> [pg.P EXCEPT !.buddies[low][t].has_metas = TRUE], ret |-> 0] :
        pg \in {pmm_fast_page_alloc(P)} } : TRUE

RECURSIVE pmm_internal_alloc(_, _, _)
RECURSIVE pmm_internal_free(_, _, _)
RECURSIVE PmmInitPBuddy(_, _, _, _, _, _)
RECURSIVE PmmBuddyAlloc(_, _, _, _)

\* init_pbuddy(&buddies[t], base, exp, min_exp) with the allocations it makes
PmmInitMeta(P, low, t, base, exp, min_exp, node_metas) ==
    CHOOSE res \in
      { IF g.ret # 0
        THEN [P |-> IF g.P.fault # "none" THEN g.P
                    ELSE pmm_internal_free(g.P, node_metas, FALSE).P,
              ret |-> -3]
        ELSE CHOOSE res2 \in
               { [P |-> PmmPutBuddy(g.P, low, t, i.S), ret |-> i.ret] :
                 i \in {init_pbuddy(PmmBuddy(g.P, low, t, <<base>>), base, exp,
                                    min_exp)} } : TRUE :
        g \in {PmmGetNewMeta(P, low, t)} } : TRUE

PmmInitPBuddy(P, low, t, base, exp, min_exp) ==
    IF \/ base = NULL \/ exp < min_exp
       \/ (P.buddies[low][t].exp # -1 /\ exp # P.buddies[low][t].exp)
    THEN [P |-> P, ret |-> -1]
    ELSE CHOOSE r \in
           { IF nm.P.fault # "none" \/ nm.ret = NULL THEN [P |-> nm.P, ret |-> -2]
             ELSE PmmInitMeta(nm.P, low, t, base, exp, min_exp, nm.ret) :
             nm \in {pmm_internal_alloc(P, 2^(exp - min_exp) * SizeofNodeMeta, FALSE)} }
           : TRUE

\* pbuddy_alloc(&buddies[t], size): acquire from the chain, and on failure
\* init_pbuddy over pmm_alloc(1 << list->exp) and retry
PmmRefill(P, low, t, size) ==
    LET b == P.buddies[low][t]
    IN CHOOSE r \in
         { IF ini.ret = 0 /\ ini.P.fault = "none"
           THEN PmmBuddyAlloc(ini.P, low, t, size)
           ELSE [P |-> ini.P, ret |-> NULL] :
           ini \in { PmmInitPBuddy(blk.P, low, t, blk.ret, b.exp, b.min_exp) :
                     blk \in {pmm_internal_alloc(P, 2^b.exp, FALSE)} } } : TRUE

PmmBuddyAlloc(P, low, t, size) ==
    LET b == P.buddies[low][t]
        exp == Ctz(SIZE_T_NEXT_POW2(size))
    IN IF b.head = <<>> \/ exp < b.min_exp \/ exp > b.exp
       THEN [P |-> P, ret |-> NULL]
       ELSE CHOOSE r \in
              { IF a.ret # NULL \/ a.S.fault # "none"
                THEN [P |-> PmmPutBuddy(P, low, t, a.S), ret |-> a.ret]
                ELSE PmmRefill(PmmPutBuddy(P, low, t, a.S), low, t, size) :
                a \in {pbuddy_alloc(PmmBuddy(P, low, t, <<>>), size)} } : TRUE

\* the part of pmm_internal_alloc after the bias loop
PmmAllocBuddy(P, size, low, t, buddy_min_exp) ==
    IF t \notin Exps
    THEN [P |-> [P EXCEPT !.fault = "oob"], ret |-> NULL, who |-> "none", exp |-> t]
    ELSE IF P.buddies[low][t].head # <<>>
    THEN PmmBuddyAlloc(P, low, t, size) @@ [who |-> "buddy", exp |-> t]
    ELSE CHOOSE r \in
           { IF ini.ret # 0 \/ ini.P.fault # "none"
             THEN \* get_more_mem: ARC_HANG
                  [P |-> [ini.P EXCEPT !.fault = "hang"], ret |-> NULL,
                   who |-> "none", exp |-> t]
             ELSE PmmBuddyAlloc(ini.P, low, t, size) @@ [who |-> "buddy", exp |-> t] :
             ini \in { PmmInitPBuddy([a.P EXCEPT !.buddies[low][t].exp = -1], low, t,
                                     a.ret, t, buddy_min_exp) :
                       a \in { [P |-> [P EXCEPT !.fl = f.F], ret |-> f.ret] :
                               f \in {pfreelist_alloc(P.fl, P.freelists[low][t])} } } }
           : TRUE

pmm_internal_alloc(P, size0, low) ==
    LET size == SIZE_T_NEXT_POW2(size0)
        size_exponent == Ctz(SIZE_T_NEXT_POW2(size0))
    IN
    IF size_exponent = PAGE_SIZE_LOWEST_EXPONENT
    THEN pmm_fast_page_alloc(P) @@ [who |-> "fast", exp |-> size_exponent]
    ELSE IF P.freelists[low][size_exponent] # NULL
    THEN CHOOSE res \in
           { [P |-> [P EXCEPT !.fl = f.F], ret |-> f.ret,
              who |-> "freelist", exp |-> size_exponent] :
             f \in {pfreelist_alloc(P.fl, P.freelists[low][size_exponent])} } : TRUE
    ELSE CHOOSE res \in
           { PmmAllocBuddy(P, size, low, tb.t, tb.buddy_min_exp) :
             tb \in {BiasSelect(P.biases[low], 1, size_exponent,
                                [t |-> -1, buddy_min_exp |-> 0])} } : TRUE

\* the loop of pmm_internal_free over the biases
RECURSIVE PmmFreeLoop(_, _, _, _)
PmmFreeLoop(P, address, low, i) ==
    IF i > Len(P.biases[low])
    THEN [P |-> pmm_fast_page_free(P, address).P, ret |-> PAGE_SIZE,
          who |-> "fast", exp |-> PAGE_SIZE_LOWEST_EXPONENT]
    ELSE
    LET bias == P.biases[low][i].exp
    IN CHOOSE res \in
         { IF s.ret > 0
           THEN [P |-> PmmPutBuddy(P, low, bias, s.S), ret |-> s.ret,
                 who |-> "buddy", exp |-> bias]
           ELSE IF f.ret = address
           THEN [P |-> [P EXCEPT !.fl = f.F], ret |-> 2^bias,
                 who |-> "freelist", exp |-> bias]
           ELSE PmmFreeLoop(P, address, low, i + 1) :
           s \in {pbuddy_free(PmmBuddy(P, low, bias, <<>>), address)},
           f \in {pfreelist_free(P.fl, P.freelists[low][bias], address)} } : TRUE

pmm_internal_free(P, address, low) ==
    IF address = NULL THEN [P |-> P, ret |-> 0, who |-> "none", exp |-> 0]
    ELSE PmmFreeLoop(P, address, low, 1)

\* calls of entry points in one run of the PMM model
MaxPmmOps == 4

InitPM ==
    /\ \E biases_high \in BiasTablesHigh : pm = init_pmm(biases_high, BootMMap)
    /\ pb = Idle /\ fl = Idle /\ ga = Idle /\ vm = Idle /\ pw = Idle /\ th = Idle
    /\ GhostInit

\* request sizes: one page, its double, and the largest bias size
PmmSizes == { PAGE_SIZE, 2 * PAGE_SIZE, 2^MaxExp }

\* pmm_alloc(size) and pmm_low_alloc(size); a block handed out is recorded
\* with the sub-allocator it came from and the call that returned it
PmmAlloc(size, low) ==
    /\ pm.fault = "none" /\ pm.fl.fault = "none"
    /\ nops < MaxPmmOps
    /\ \E a \in {pmm_internal_alloc(pm, size, low)} :
          /\ pm' = a.P
          /\ op' = [MkOp(IF low THEN "pmm_low_alloc" ELSE "pmm_alloc", size, NULL, a.ret)
                      EXCEPT !.who = a.who, !.exp = a.exp]
          /\ live' = IF a.ret = NULL THEN live
                     ELSE live \cup {<<a.ret, SIZE_T_NEXT_POW2(size), a.who, a.exp, low>>}
          /\ freed' = freed \ {a.ret}
    /\ nops' = nops + 1
    /\ UNCHANGED NotPM

PmmFastPageAlloc ==
    /\ pm.fault = "none" /\ pm.fl.fault = "none"
    /\ nops < MaxPmmOps
    /\ \E a \in {pmm_fast_page_alloc(pm)} :
          /\ pm' = a.P
          /\ op' = [MkOp("pmm_fast_page_alloc", PAGE_SIZE, NULL, a.ret)
                      EXCEPT !.who = "fast", !.exp = PAGE_SIZE_LOWEST_EXPONENT]
          /\ live' = IF a.ret = NULL THEN live
                     ELSE live \cup {<<a.ret, PAGE_SIZE, "fast", PAGE_SIZE_LOWEST_EXPONENT,
                                      FALSE>>}
          /\ freed' = freed \ {a.ret}
    /\ nops' = nops + 1
    /\ UNCHANGED NotPM

\* pmm_free(p) of a block from pmm_alloc or pmm_fast_page_alloc,
\* pmm_low_free(p) of a block from pmm_low_alloc
PmmFree(p, low) ==
    /\ pm.fault = "none" /\ pm.fl.fault = "none"
    /\ nops < MaxPmmOps
    /\ \E b \in live : b[1] = p /\ b[5] = low
    /\ \E f \in {pmm_internal_free(pm, p, low)} :
          /\ pm' = f.P
          /\ op' = [MkOp(IF low THEN "pmm_low_free" ELSE "pmm_free", 0, p, f.ret)
                      EXCEPT !.who = f.who, !.exp = f.exp]
          /\ live' = { b \in live : b[1] # p }
          /\ freed' = freed \cup {p}
    /\ nops' = nops + 1
    /\ UNCHANGED NotPM

NextPM ==
    \/ \E size \in PmmSizes : \E low \in BOOLEAN : PmmAlloc(size, low)
    \/ PmmFastPageAlloc
    \/ \E p \in PmmAddrs : \E low \in BOOLEAN : PmmFree(p, low)

\* the physical memory manager after init_pmm, under callers that free only
\* what they hold
SpecPM == InitPM /\ [][NextPM]_vars

(***************************************************************************)
(* vbuddy.c, vmm.c                                                         *)
(*                                                                         *)
(* V is the ARC_VBuddyMeta: tree is the list of vbuddy_node in list order  *)
(* (next is the successor in the sequence), the empty sequence a NULL      *)
(* tree. The nodes themselves come from meta->ialloc; budget is the number *)
(* of nodes ialloc can still deliver during one call.                      *)
(***************************************************************************)
VbNode(base, size, attributes) ==
    [base |-> base, size |-> size, attributes |-> attributes]

InsertAfter(seq, i, x) ==
    SubSeq(seq, 1, i) \o <<x>> \o SubSeq(seq, i + 1, Len(seq))

RemoveAt(seq, i) ==
    SubSeq(seq, 1, i - 1) \o SubSeq(seq, i + 1, Len(seq))

\* split(meta, node), node the i-th of the list
vbuddy_split(V, i, budget) ==
    IF i = 0 \/ V.tree[i].attributes = 1 \/ V.tree[i].size = V.smallest_object
    THEN [V |-> V, ret |-> -1]
    ELSE IF budget = 0 THEN [V |-> V, ret |-> -2]
    ELSE LET half == V.tree[i].size \div 2
             buddy == VbNode(V.tree[i].base + half, half, 0)
         IN [V |-> [V EXCEPT !.tree =
                       InsertAfter([V.tree EXCEPT ![i].size = half], i, buddy)],
             ret |-> 0]

\* merge(meta, base), base the i-th of the list
vbuddy_merge(V, i) ==
    IF i = 0 \/ V.tree[i].attributes = 1 \/ i = Len(V.tree)
    THEN [V |-> V, ret |-> -1]
    ELSE IF V.tree[i + 1].attributes = 1 \/ V.tree[i].size # V.tree[i + 1].size
    THEN [V |-> V, ret |-> -1]
    ELSE [V |-> [V EXCEPT !.tree =
                    RemoveAt([V.tree EXCEPT ![i].size = 2 * @], i + 1)],
          ret |-> 0]

\* the outer loop of vbuddy_alloc: the first free node of at least size,
\* 0 for NULL
RECURSIVE VbFirstFit(_, _, _)
VbFirstFit(tree, i, size) ==
    IF i > Len(tree) THEN 0
    ELSE IF tree[i].attributes = 1 \/ size > tree[i].size
    THEN VbFirstFit(tree, i + 1, size)
    ELSE i

\* while (current->size != size) if (split(meta, current) != 0) break;
RECURSIVE VbSplitDown(_, _, _, _)
VbSplitDown(V, i, size, budget) ==
    IF V.tree[i].size = size THEN V
    ELSE CHOOSE res \in
           { IF sp.ret # 0 THEN sp.V
             ELSE VbSplitDown(sp.V, i, size, budget - 1) :
             sp \in {vbuddy_split(V, i, budget)} } : TRUE

VbTake(V, i) ==
    [V |-> [V EXCEPT !.tree[i].attributes = 1], ret |-> V.tree[i].base]

vbuddy_alloc(V, size0, budget) ==
    IF size0 = 0 \/ V.tree = <<>> THEN [V |-> V, ret |-> NULL]
    ELSE IF size0 < V.smallest_object THEN [V |-> V, ret |-> NULL]
    ELSE CHOOSE res \in
           { IF i = 0 THEN [V |-> V, ret |-> NULL]
             ELSE VbTake(VbSplitDown(V, i, SIZE_T_NEXT_POW2(size0), budget), i) :
             i \in {VbFirstFit(V.tree, 1, SIZE_T_NEXT_POW2(size0))} } : TRUE

\* while (current != NULL && current->base != address) current = current->next;
RECURSIVE VbFind(_, _, _)
VbFind(tree, i, address) ==
    IF i > Len(tree) THEN 0
    ELSE IF tree[i].base # address THEN VbFind(tree, i + 1, address)
    ELSE i

VbRelease(V, i) ==
    [V |-> vbuddy_merge([V EXCEPT !.tree[i].attributes = 0], i).V,
     ret |-> V.tree[i].size]

vbuddy_free(V, address) ==
    IF V.tree = <<>> THEN [V |-> V, ret |-> 0]
    ELSE CHOOSE res \in
           { IF i = 0 THEN [V |-> V, ret |-> 0]
             ELSE IF V.tree[i].attributes = 0 THEN [V |-> V, ret |-> 0]
             ELSE VbRelease(V, i) :
             i \in {VbFind(V.tree, 1, address)} } : TRUE

init_vbuddy(base, size, smallest_object, budget) ==
    IF budget = 0
    THEN [V |-> [base |-> base, ceil |-> base + size,
                 smallest_object |-> smallest_object, tree |-> <<>>],
          ret |-> -2]
    ELSE [V |-> [base |-> base, ceil |-> base + size,
                 smallest_object |-> smallest_object,
                 tree |-> <<VbNode(base, size, 0)>>],
          ret |-> 0]

vmm_alloc(V, size, budget) ==
    IF size = 0 THEN [V |-> V, ret |-> NULL]
    ELSE vbuddy_alloc(V, size, budget)

vmm_free(V, address) == vbuddy_free(V, address)

(***************************************************************************)
(* pslab.c                                                                 *)
(*                                                                         *)
(* M is the ARC_PSlabMeta: lists[i] the address of the ARC_PFreelistMeta   *)
(* of class i, list_sizes[i] its object size (indices 1..8 for 0..7).      *)
(***************************************************************************)
PslabLists == 1..8

\* the first i with size <= list_sizes[i]
RECURSIVE PslabClass(_, _, _)
PslabClass(M, size, i) ==
    IF i > 8 THEN 0
    ELSE IF size <= M.list_sizes[i] THEN i
    ELSE PslabClass(M, size, i + 1)

pslab_alloc(M, F, size) ==
    IF size > M.list_sizes[8] THEN [F |-> F, ret |-> NULL]
    ELSE IF PslabClass(M, size, 1) = 0 THEN [F |-> F, ret |-> NULL]
    ELSE pfreelist_alloc(F, M.lists[PslabClass(M, size, 1)])

\* the first i whose first region has base <= address <= ceil; -1 when the
\* loop reads through a NULL lists[i]
RECURSIVE PslabOwner(_, _, _, _)
PslabOwner(M, F, address, i) ==
    IF i > 8 THEN 0
    ELSE IF M.lists[i] = NULL THEN -1
    ELSE IF FL_ADDRESS_IN_META(address, F.metas[M.lists[i]]) THEN i
    ELSE PslabOwner(M, F, address, i + 1)

\* memset(address, 0, meta->list_sizes[i])
PslabMemset(F, address) ==
    IF address \in DOMAIN F.next THEN [F EXCEPT !.next[address] = NULL] ELSE F

pslab_free(M, F, address) ==
    CHOOSE res \in
      { IF i = -1 THEN [F |-> [F EXCEPT !.fault = "null"], ret |-> NULL]
        ELSE IF i = 0 THEN [F |-> F, ret |-> NULL]
        ELSE pfreelist_free(PslabMemset(F, address), M.lists[i], address) :
        i \in {PslabOwner(M, F, address, 1)} } : TRUE

\* the eight init_pfreelist calls of init_pslab
RECURSIVE PslabInitLists(_, _, _, _, _)
PslabInitLists(I, base, partition_size, object_size, i) ==
    IF i > 8 THEN I
    ELSE CHOOSE res \in
           { PslabInitLists(
                 [F |-> r.F,
                  M |-> [I.M EXCEPT !.lists[i] = r.ret,
                                    !.list_sizes[i] = object_size]],
                 base + partition_size, partition_size, 2 * object_size, i + 1) :
             r \in {init_pfreelist(I.F, base, base + partition_size, object_size)} }
           : TRUE

PslabZero ==
    [lists |-> [i \in PslabLists |-> NULL],
     list_sizes |-> [i \in PslabLists |-> 0],
     range |-> NULL, range_length |-> 0, attributes |-> 0]

init_pslab(M, F, range, range_size, attributes) ==
    CHOOSE res \in
      { [F |-> I.F,
         M |-> [I.M EXCEPT !.range = range, !.range_length = range_size,
                           !.attributes = attributes],
         ret |-> range + 8 * (range_size \div 8)] :
        I \in {PslabInitLists([F |-> F, M |-> M], range, range_size \div 8, 16, 1)} }
      : TRUE

(***************************************************************************)
(* allocator.c                                                             *)
(*                                                                         *)
(* G is the general allocator: meta the static ARC_PSlabMeta, F the        *)
(* memory of its freelists, vmm the virtual buddy behind vmm_alloc and     *)
(* vmm_free.                                                               *)
(***************************************************************************)
\* PAGE_SIZE of the general allocator: init_allocator takes pages << 12
PAGE_SIZE_4K == 4096

\* pages init_allocator may be given per size class
GaPages == 2
\* exponent of the size of the virtual range behind vmm_alloc
VmExp == 19
\* calls of alloc and free in one run of the general allocator model
MaxGaOps == 4

VmBase == 2 * (2^VmExp)
VmSize == 2^VmExp

\* the object slots of the eight partitions of a SLAB range
PslabSlots(range, partition_size) ==
    UNION { { range + i * partition_size + k * (16 * 2^i) :
                k \in 0..((partition_size \div (16 * 2^i)) - 1) } : i \in 0..7 }

\* memory of a SLAB range before init_pslab
PslabMemory(range, range_size) ==
    [metas |-> [b \in { range + i * (range_size \div 8) : i \in 0..7 } |-> NULL],
     next |-> [a \in PslabSlots(range, range_size \div 8) |-> NULL],
     fault |-> "none"]

\* alloc with the threshold at a whole page
alloc_whole_page(G, size, budget) ==
    IF size > PAGE_SIZE_4K
    THEN CHOOSE res \in
           { [G |-> [G EXCEPT !.vmm = v.V], ret |-> v.ret, via |-> "vmm"] :
             v \in {vmm_alloc(G.vmm, Max2(PAGE_SIZE_4K, size), budget)} } : TRUE
    ELSE CHOOSE res \in
           { [G |-> [G EXCEPT !.F = a.F], ret |-> a.ret, via |-> "slab"] :
             a \in {pslab_alloc(G.meta, G.F, size)} } : TRUE

alloc(G, size, budget) ==
    IF size > PAGE_SIZE_4K \div 2
    THEN CHOOSE res \in
           { [G |-> [G EXCEPT !.vmm = v.V], ret |-> v.ret, via |-> "vmm"] :
             v \in {vmm_alloc(G.vmm, Max2(PAGE_SIZE_4K, size), budget)} } : TRUE
    ELSE CHOOSE res \in
           { [G |-> [G EXCEPT !.F = a.F], ret |-> a.ret, via |-> "slab"] :
             a \in {pslab_alloc(G.meta, G.F, size)} } : TRUE

calloc(G, size, count, budget) ==
    IF size * count > PAGE_SIZE_4K \div 2
    THEN CHOOSE res \in
           { [G |-> [G EXCEPT !.vmm = v.V], ret |-> v.ret, via |-> "vmm"] :
             v \in {vmm_alloc(G.vmm, Max2(PAGE_SIZE_4K, size), budget)} } : TRUE
    ELSE CHOOSE res \in
           { [G |-> [G EXCEPT !.F = a.F], ret |-> a.ret, via |-> "slab"] :
             a \in {pslab_alloc(G.meta, G.F, size * count)} } : TRUE

\* bytes of the block at address p: the size of its vbuddy node, or the
\* object size of the SLAB class whose partition holds it
GaBlockSize(G, p, via) ==
    IF via = "vmm"
    THEN G.vmm.tree[VbFind(G.vmm.tree, 1, p)].size
    ELSE G.meta.list_sizes[PslabOwner(G.meta, G.F, p, 1)]

\* free: slab is what pslab_free returned, vmm what vmm_free returned, -1
\* when it was not called
GaFreeVmm(G, address) ==
    CHOOSE res \in
      { [G |-> [G EXCEPT !.vmm = v.V], ret |-> v.ret, slab |-> NULL, vmm |-> v.ret] :
        v \in {vmm_free(G.vmm, address)} } : TRUE

free(G, address) ==
    CHOOSE res \in
      { IF s.ret = NULL /\ address # NULL
        THEN GaFreeVmm([G EXCEPT !.F = s.F], address)
        ELSE [G |-> [G EXCEPT !.F = s.F], ret |-> s.ret, slab |-> s.ret, vmm |-> -1] :
        s \in {pslab_free(G.meta, G.F, address)} } : TRUE

GaInitSlab(V, range, range_length) ==
    CHOOSE res \in
      { [G |-> [meta |-> i.M, F |-> i.F, vmm |-> V],
         ret |-> IF i.ret # range + range_length THEN 1 ELSE 0] :
        i \in {init_pslab(PslabZero, PslabMemory(range, range_length),
                          range, range_length, 1)} } : TRUE

init_allocator(V, pages, budget) ==
    CHOOSE res \in
      { IF r.ret = NULL
        THEN [G |-> [meta |-> PslabZero, F |-> PslabMemory(NULL, 0), vmm |-> r.V],
              ret |-> -1]
        ELSE GaInitSlab(r.V, r.ret, pages * PAGE_SIZE_4K * 8) :
        r \in {vmm_alloc(V, pages * PAGE_SIZE_4K * 8, budget)} } : TRUE

\* the general allocator after init_vmm over the virtual range and
\* init_allocator(pages)
InitGA ==
    /\ \E pages \in 1..GaPages :
          ga = init_allocator(
                   init_vbuddy(VmBase, VmSize, PAGE_SIZE_4K, 1).V, pages, VmExp).G
    /\ pb = Idle /\ fl = Idle /\ pm = Idle /\ vm = Idle /\ pw = Idle /\ th = Idle
    /\ GhostInit

\* request sizes: inside a class, at the threshold, past it, past a page
GaSizes == {24, PAGE_SIZE_4K \div 2, PAGE_SIZE_4K \div 2 + 1, PAGE_SIZE_4K + 1}

GaAlloc(size, budget) ==
    /\ ga.F.fault = "none"
    /\ nops < MaxGaOps
    /\ \E a \in {alloc(ga, size, budget)} :
          /\ ga' = a.G
          /\ op' = [MkOp("ga_alloc", size, NULL, a.ret) EXCEPT !.who = a.via]
          /\ live' = IF a.ret = NULL THEN live
                     ELSE live \cup {<<a.ret, size, a.via>>}
          /\ freed' = freed \ {a.ret}
    /\ nops' = nops + 1
    /\ UNCHANGED NotGA

\* the caller frees a block it holds
GaFree(p) ==
    /\ ga.F.fault = "none"
    /\ nops < MaxGaOps
    /\ \E b \in live : b[1] = p
    /\ \E f \in {free(ga, p)} :
          /\ ga' = f.G
          /\ op' = [MkOp("ga_free", 0, p, f.ret) EXCEPT
                      !.slab = f.slab, !.vmm = f.vmm,
                      !.would = vmm_free(ga.vmm, p).ret]
          /\ live' = { b \in live : b[1] # p }
          /\ freed' = freed \cup {p}
    /\ nops' = nops + 1
    /\ UNCHANGED NotGA

\* calloc arguments <<size, count>>: products inside a class, at the
\* threshold, and past it with size below and above a page
GaCallocArgs == {<<8, 3>>, <<1024, 2>>, <<1024, 8>>, <<PAGE_SIZE_4K + 1, 2>>}

GaCalloc(size, count, budget) ==
    /\ ga.F.fault = "none"
    /\ nops < MaxGaOps
    /\ \E a \in {calloc(ga, size, count, budget)} :
          /\ ga' = a.G
          /\ op' = [MkOp("ga_calloc", size * count, NULL, a.ret) EXCEPT
                      !.who = a.via,
                      !.alt = alloc(ga, size * count, budget).via,
                      !.granted = IF a.ret = NULL THEN 0
                                  ELSE GaBlockSize(a.G, a.ret, a.via)]
          /\ live' = IF a.ret = NULL THEN live
                     ELSE live \cup {<<a.ret, size * count, a.via>>}
          /\ freed' = freed \ {a.ret}
    /\ nops' = nops + 1
    /\ UNCHANGED NotGA

GaAddrs == UNION { {b[1]} : b \in live }

NextGA ==
    \/ \E size \in GaSizes : \E budget \in {0, VmExp} : GaAlloc(size, budget)
    \/ \E sc \in GaCallocArgs : \E budget \in {0, VmExp} :
          GaCalloc(sc[1], sc[2], budget)
    \/ \E p \in GaAddrs : GaFree(p)

\* the general allocator under callers that free only what they hold
SpecGA == InitGA /\ [][NextGA]_vars

(***************************************************************************)
(* One ARC_PSlabMeta under pslab_alloc, pslab_free and pslab_expand. ga is *)
(* [meta, F, pool]: pool the bases of the page runs pmm_alloc can still    *)
(* hand out, their memory part of F from the start.                        *)
(***************************************************************************)
\* page runs the PMM holds for pslab_expand
SlPool == 1
\* calls of pslab_alloc, pslab_free and pslab_expand in one run
MaxSlOps == 5

\* pages of one run of the PMM
SlRunPages == 2
SlRange == VmBase
SlRangeLength == 8 * 2 * PAGE_SIZE_4K
SlRunBase(k) == SlRange + SlRangeLength + (k - 1) * SlRunPages * PAGE_SIZE_4K

\* last = A; while (last->next != NULL) last = last->next;
RECURSIVE FlLast(_, _)
FlLast(F, m) == IF F.metas[m].next = NULL THEN m ELSE FlLast(F, F.metas[m].next)

link_pfreelists(F, A, B) ==
    IF A = NULL \/ B = NULL THEN [F |-> F, ret |-> -2]
    ELSE IF F.metas[A].object_size # F.metas[B].object_size
    THEN [F |-> F, ret |-> -1]
    ELSE CHOOSE res \in
           { [F |-> [F EXCEPT !.metas[B].next = F.metas[last].next,
                              !.metas[last].next = B],
              ret |-> 0] : last \in {FlLast(F, A)} } : TRUE

\* list is the index of the code, 0..7; base is what pmm_alloc returned
pslab_expand(M, F, list, pages, base) ==
    IF list < 0 \/ list > 7 \/ pages = 0 THEN [F |-> F, ret |-> -1]
    ELSE IF base = NULL
    THEN \* init_pfreelist(0, pages * PAGE_SIZE, ...) lays a meta at NULL
         [F |-> [F EXCEPT !.fault = "null"], ret |-> -1]
    ELSE CHOOSE res \in
           { link_pfreelists(i.F, M.lists[list + 1], i.ret) :
             i \in {init_pfreelist(F, base, base + pages * PAGE_SIZE_4K,
                                   M.list_sizes[list + 1])} } : TRUE

\* memory of the SLAB range and of the runs of the PMM before any init
SlMemory ==
    CHOOSE res \in
      { [metas |-> [b \in DOMAIN m.metas \cup { SlRunBase(k) : k \in 1..SlPool }
                      |-> NULL],
         next |-> [a \in DOMAIN m.next \cup
                      UNION { { SlRunBase(k) + j * 1024 :
                                  j \in 0..(SlRunPages * 4 - 1) } : k \in 1..SlPool }
                      |-> NULL],
         fault |-> "none"] : m \in {PslabMemory(SlRange, SlRangeLength)} } : TRUE

\* the ARC_PSlabMeta after init_pslab over the SLAB range
InitSL ==
    /\ \E i \in {init_pslab(PslabZero, SlMemory, SlRange, SlRangeLength, 1)} :
          ga = [meta |-> i.M, F |-> i.F,
                pool |-> { SlRunBase(k) : k \in 1..SlPool }]
    /\ pb = Idle /\ fl = Idle /\ pm = Idle /\ vm = Idle /\ pw = Idle /\ th = Idle
    /\ GhostInit

\* pmm_alloc: the lowest run of the pool, NULL when the pool is empty
SlPmmAlloc(pool) ==
    IF pool = {} THEN NULL ELSE CHOOSE b \in pool : \A c \in pool : b <= c

\* request sizes: a small class, the largest class and its interior, past it
SlSizes == {24, 1025, 2048, 2049}

SlAlloc(size) ==
    /\ ga.F.fault = "none"
    /\ nops < MaxSlOps
    /\ \E a \in {pslab_alloc(ga.meta, ga.F, size)} :
          /\ ga' = [ga EXCEPT !.F = a.F]
          /\ op' = [MkOp("sl_alloc", size, NULL, a.ret) EXCEPT
                      !.same = (a.F = ga.F), !.pre = ga]
          /\ live' = IF a.ret = NULL THEN live ELSE live \cup {<<a.ret, size>>}
          /\ freed' = freed \ {a.ret}
    /\ nops' = nops + 1
    /\ UNCHANGED NotGA

\* the caller frees an object it holds, or an address no class covers
SlFree(p) ==
    /\ ga.F.fault = "none"
    /\ nops < MaxSlOps
    /\ \E f \in {pslab_free(ga.meta, ga.F, p)} :
          /\ ga' = [ga EXCEPT !.F = f.F]
          /\ op' = [MkOp("sl_free", 0, p, f.ret) EXCEPT
                      !.same = (f.F = ga.F), !.pre = ga]
          /\ live' = { b \in live : b[1] # p }
          /\ freed' = freed \cup {p}
    /\ nops' = nops + 1
    /\ UNCHANGED NotGA

SlExpand(list, pages) ==
    /\ ga.F.fault = "none"
    /\ nops < MaxSlOps
    /\ \E base \in {IF list < 0 \/ list > 7 \/ pages = 0 THEN NULL
                    ELSE SlPmmAlloc(ga.pool)} :
       \E e \in {pslab_expand(ga.meta, ga.F, list, pages, base)} :
          /\ ga' = [ga EXCEPT !.F = e.F, !.pool = @ \ {base}]
          /\ op' = [MkOp("sl_expand", pages, base, e.ret) EXCEPT !.exp = list]
    /\ nops' = nops + 1
    /\ UNCHANGED <<live, freed>>
    /\ UNCHANGED NotGA

\* an address outside the SLAB range and the runs of the PMM
SlForeign == SlRange - 16

SlAddrs == UNION { {b[1]} : b \in live } \cup {SlForeign}

NextSL ==
    \/ \E size \in SlSizes : SlAlloc(size)
    \/ \E p \in SlAddrs : SlFree(p)
    \/ \E list \in {7, 8} : \E pages \in {0, SlRunPages} : SlExpand(list, pages)

\* one SLAB under callers that free what they hold or a foreign address
SpecSL == InitSL /\ [][NextSL]_vars

(***************************************************************************)
(* iallocator_expand over the eight classes of one ARC_PSlabMeta            *)
(* (algo/allocator.c). ga is [meta, F, pool] as above; the PMM holds up to *)
(* SxPool page runs when the run starts.                                   *)
(***************************************************************************)
\* page runs the PMM may hold for iallocator_expand
SxPool == 8
\* calls of pslab_alloc, pslab_free and iallocator_expand in one run
MaxSxOps == 3
\* pages of one run of the PMM, the argument of iallocator_expand
SxRunPages == 2

SxRunBase(k) == SlRange + SlRangeLength + (k - 1) * SxRunPages * PAGE_SIZE_4K

\* cumulative_err += (slab_expand(&meta, list, pages) == 0), list .. 7; A is
\* [F, pool, ret]
RECURSIVE IaExpandFrom(_, _, _, _)
IaExpandFrom(M, A, list, pages) ==
    IF list > 7 \/ A.F.fault # "none" THEN A
    ELSE CHOOSE res \in
           { IaExpandFrom(M,
                          [F |-> e[2].F, pool |-> A.pool \ {e[1]},
                           ret |-> A.ret + (IF e[2].ret = 0 THEN 1 ELSE 0)],
                          list + 1, pages) :
             e \in { <<base, pslab_expand(M, A.F, list, pages, base)>> :
                     base \in {IF pages = 0 THEN NULL ELSE SlPmmAlloc(A.pool)} } }
           : TRUE

iallocator_expand(M, F, pool, pages) ==
    IaExpandFrom(M, [F |-> F, pool |-> pool, ret |-> 0], 0, pages)

\* memory of the SLAB range and of the runs of the PMM before any init
SxMemory ==
    CHOOSE res \in
      { [metas |-> [b \in DOMAIN m.metas \cup { SxRunBase(k) : k \in 1..SxPool }
                      |-> NULL],
         next |-> [a \in DOMAIN m.next \cup
                      UNION { { SxRunBase(k) + j * 16 :
                                  j \in 0..(SxRunPages * 256 - 1) } : k \in 1..SxPool }
                      |-> NULL],
         fault |-> "none"] : m \in {PslabMemory(SlRange, SlRangeLength)} } : TRUE

\* the ARC_PSlabMeta after init_pslab, beside a PMM that holds n runs
InitSX ==
    /\ \E i \in {init_pslab(PslabZero, SxMemory, SlRange, SlRangeLength, 1)} :
       \E n \in 0..SxPool :
          ga = [meta |-> i.M, F |-> i.F,
                pool |-> { SxRunBase(k) : k \in 1..n }]
    /\ pb = Idle /\ fl = Idle /\ pm = Idle /\ vm = Idle /\ pw = Idle /\ th = Idle
    /\ GhostInit

SxExpand(pages) ==
    /\ ga.F.fault = "none"
    /\ nops < MaxSxOps
    /\ \E e \in {iallocator_expand(ga.meta, ga.F, ga.pool, pages)} :
          /\ ga' = [ga EXCEPT !.F = e.F, !.pool = e.pool]
          /\ op' = [MkOp("ia_expand", pages, NULL, e.ret) EXCEPT !.pre = ga]
    /\ nops' = nops + 1
    /\ UNCHANGED <<live, freed>>
    /\ UNCHANGED NotGA

SxAlloc(size) == nops < MaxSxOps /\ SlAlloc(size)
SxFree(p) == nops < MaxSxOps /\ SlFree(p)

NextSX ==
    \/ \E pages \in {0, SxRunPages} : SxExpand(pages)
    \/ \E size \in SlSizes : SxAlloc(size)
    \/ \E p \in SlAddrs : SxFree(p)

\* one SLAB under iallocator_expand, pslab_alloc and pslab_free
SpecSX == InitSX /\ [][NextSX]_vars

(***************************************************************************)
(* One ARC_VMMMeta under vmm_alloc and vmm_free. pager_fly_map is outside  *)
(* the repository: the pager of a run either serves or fails every call.   *)
(***************************************************************************)
\* exponent of the size of the virtual range of the ARC_VMMMeta, in pages
VmmDepth == 3
\* calls of vmm_alloc and vmm_free in one run
MaxVmmOps == 5

VmmBase == PAGE_SIZE_4K * 16
VmmRange == PAGE_SIZE_4K * (2^VmmDepth)

\* the ARC_VMMMeta after init_vmm(base, size), and the pager of the run
InitVM ==
    /\ \E pager_ok \in BOOLEAN :
          vm = [buddy |-> init_vbuddy(VmmBase, VmmRange, PAGE_SIZE_4K, 1).V,
                pager_ok |-> pager_ok]
    /\ pb = Idle /\ fl = Idle /\ pm = Idle /\ ga = Idle /\ pw = Idle /\ th = Idle
    /\ GhostInit

VmmSizes == {1, PAGE_SIZE_4K, PAGE_SIZE_4K + 1, 4 * PAGE_SIZE_4K}

VmmAlloc(size, budget) ==
    /\ nops < MaxVmmOps
    /\ \E a \in {vmm_alloc(vm.buddy, size, budget)} :
          /\ vm' = [vm EXCEPT !.buddy = a.V]
          /\ op' = [MkOp("vmm_alloc", size, NULL, a.ret) EXCEPT
                      !.same = (a.V = vm.buddy)]
          /\ live' = IF a.ret = NULL THEN live
                     ELSE live \cup {<<a.ret, size>>}
          /\ freed' = freed \ {a.ret}
    /\ nops' = nops + 1
    /\ UNCHANGED NotVM

\* the caller frees a range it holds
VmmFree(p) ==
    /\ nops < MaxVmmOps
    /\ \E b \in live : b[1] = p
    /\ \E f \in {vmm_free(vm.buddy, p)} :
          /\ vm' = [vm EXCEPT !.buddy = f.V]
          /\ op' = MkOp("vmm_free", 0, p, f.ret)
          /\ live' = { b \in live : b[1] # p }
          /\ freed' = freed \cup {p}
    /\ nops' = nops + 1
    /\ UNCHANGED NotVM

VmmAddrs == { VmmBase + k * PAGE_SIZE_4K : k \in 0..(2^VmmDepth - 1) }

NextVM ==
    \/ \E size \in VmmSizes : \E budget \in {0, VmmDepth} : VmmAlloc(size, budget)
    \/ \E p \in VmmAddrs : VmmFree(p)

\* one ARC_VMMMeta under callers that free only what they hold
SpecVM == InitVM /\ [][NextVM]_vars

(***************************************************************************)
(* pwatermark.h, pwatermark.c                                              *)
(*                                                                         *)
(* W is the ARC_PWatermark: head the addresses of the ARC_PWatermarkMeta   *)
(* in list order, metas their base, ceil and off. uintptr_t and size_t     *)
(* are words of PwBits bits: sums wrap at 2^PwBits.                        *)
(***************************************************************************)
\* sizeof(struct ARC_PWatermarkMeta): next, base, ceil, off
SizeofPWatermarkMeta == 32
\* width of a word of the watermark model
PwBits == 8
\* calls of pwatermark_alloc in one run
MaxPwOps == 4

PwWord == 2^PwBits
PwAdd(a, b) == (a + b) % PwWord

\* the walk of pwatermark_alloc from the i-th meta: the first meta with
\* base + off + size <= ceil, 0 for NULL
RECURSIVE PwWalk(_, _, _)
PwWalk(W, i, size) ==
    IF i > Len(W.head) THEN 0
    ELSE IF PwAdd(PwAdd(W.metas[W.head[i]].base, W.metas[W.head[i]].off), size)
              > W.metas[W.head[i]].ceil
    THEN PwWalk(W, i + 1, size)
    ELSE i

\* a = current->base + current->off; current->off += size;
PwBump(W, m, size) ==
    [W |-> [W EXCEPT !.metas[m].off = PwAdd(@, size)],
     ret |-> PwAdd(W.metas[m].base, W.metas[m].off)]

pwatermark_alloc(W, size) ==
    IF W.head = <<>> \/ size = 0 THEN [W |-> W, ret |-> NULL]
    ELSE IF PwWalk(W, 1, size) = 0 THEN [W |-> W, ret |-> NULL]
    ELSE PwBump(W, W.head[PwWalk(W, 1, size)], size)

init_pwatermark(W, base, len) ==
    IF base = 0 \/ len <= SizeofPWatermarkMeta THEN [W |-> W, ret |-> -1]
    ELSE [W |-> [order_lock |-> W.order_lock,
                 head |-> <<base>> \o W.head,
                 metas |-> [m \in DOMAIN W.metas \cup {base} |->
                              IF m = base
                              THEN [base |-> PwAdd(base, SizeofPWatermarkMeta),
                                    ceil |-> PwAdd(base, len), off |-> 0]
                              ELSE W.metas[m]]],
          ret |-> 0]

\* a zeroed struct ARC_PWatermark
PwEmpty == [order_lock |-> FALSE, head |-> <<>>, metas |-> [m \in {} |-> NULL]]

\* the ranges init_pwatermark is called with, <<base, len>>, in call order
PwRanges == << <<64, 48>>, <<128, 64>> >>

\* the list after init_pwatermark over the first n ranges
RECURSIVE PwInitUpTo(_)
PwInitUpTo(n) ==
    IF n = 0 THEN PwEmpty
    ELSE init_pwatermark(PwInitUpTo(n - 1), PwRanges[n][1], PwRanges[n][2]).W

InitPW ==
    /\ \E n \in 1..Len(PwRanges) : pw = PwInitUpTo(n)
    /\ pb = Idle /\ fl = Idle /\ pm = Idle /\ ga = Idle /\ vm = Idle /\ th = Idle
    /\ GhostInit

\* request sizes: small ones, one too large for any region, and the largest
\* words
PwSizes == {8, 16, 24, 40, PwWord - 16, PwWord - 8}

PwAlloc(size) ==
    /\ nops < MaxPwOps
    /\ \E a \in {pwatermark_alloc(pw, size)} :
          /\ pw' = a.W
          /\ op' = [MkOp("pw_alloc", size, NULL, a.ret) EXCEPT
                      !.same = (a.W = pw), !.pre = pw]
          /\ live' = IF a.ret = NULL THEN live
                     ELSE live \cup {<<a.ret, size>>}
    /\ nops' = nops + 1
    /\ UNCHANGED <<NotPW, freed>>

NextPW == \E size \in PwSizes : PwAlloc(size)

\* one watermark list under sequential calls
SpecPW == InitPW /\ [][NextPW]_vars

(***************************************************************************)
(* pwatermark_alloc called from several threads. th[t] is the thread's     *)
(* place in pwatermark_alloc and its locals: size, the walk's position i,  *)
(* current (cur), a, and the value of current->off loaded for the +=.      *)
(* One action per access of the shared list.                               *)
(***************************************************************************)
\* threads calling pwatermark_alloc
PwThreads == 2
\* calls of pwatermark_alloc in one run of the threads
MaxPwcOps == 3

PwcThreads == 1..PwThreads
PwcSizes == {8, 16}
PwcLocal == [pc |-> "idle", size |-> 0, i |-> 0, cur |-> NULL, a |-> NULL, off |-> 0]

InitPWC ==
    /\ \E n \in 1..Len(PwRanges) : pw = PwInitUpTo(n)
    /\ th = [t \in PwcThreads |-> PwcLocal]
    /\ pb = Idle /\ fl = Idle /\ pm = Idle /\ ga = Idle /\ vm = Idle
    /\ GhostInit

\* entry and the argument test
PwcCall(t, size) ==
    /\ th[t].pc = "idle"
    /\ nops < MaxPwcOps
    /\ th' = [th EXCEPT ![t] = [PwcLocal EXCEPT
                 !.pc = IF pw.head = <<>> \/ size = 0 THEN "ret" ELSE "lock",
                 !.size = size]]
    /\ nops' = nops + 1
    /\ UNCHANGED <<pw, NotPWC, live, freed, op>>

\* spinlock_lock(&list->order_lock); current = list->head
PwcLock(t) ==
    /\ th[t].pc = "lock"
    /\ ~pw.order_lock
    /\ pw' = [pw EXCEPT !.order_lock = TRUE]
    /\ th' = [th EXCEPT ![t].pc = "walk", ![t].i = 1]
    /\ UNCHANGED <<NotPWC, live, freed, op, nops>>

\* one test of the walk's while condition
PwcWalk(t) ==
    /\ th[t].pc = "walk"
    /\ th' = [th EXCEPT ![t] =
                IF th[t].i > Len(pw.head)
                THEN [@ EXCEPT !.pc = "unlock", !.cur = NULL]
                ELSE IF PwAdd(PwAdd(pw.metas[pw.head[th[t].i]].base,
                                    pw.metas[pw.head[th[t].i]].off), th[t].size)
                             > pw.metas[pw.head[th[t].i]].ceil
                THEN [@ EXCEPT !.i = @ + 1]
                ELSE [@ EXCEPT !.pc = "unlock", !.cur = pw.head[th[t].i]]]
    /\ UNCHANGED <<pw, NotPWC, live, freed, op, nops>>

\* spinlock_unlock(&list->order_lock); the test of current against NULL
PwcUnlock(t) ==
    /\ th[t].pc = "unlock"
    /\ pw' = [pw EXCEPT !.order_lock = FALSE]
    /\ th' = [th EXCEPT ![t].pc = IF th[t].cur = NULL THEN "ret" ELSE "read"]
    /\ UNCHANGED <<NotPWC, live, freed, op, nops>>

\* a = current->base + current->off
PwcRead(t) ==
    /\ th[t].pc = "read"
    /\ th' = [th EXCEPT ![t].pc = "load",
                        ![t].a = PwAdd(pw.metas[th[t].cur].base,
                                       pw.metas[th[t].cur].off)]
    /\ UNCHANGED <<pw, NotPWC, live, freed, op, nops>>

\* current->off += size, the load
PwcLoad(t) ==
    /\ th[t].pc = "load"
    /\ th' = [th EXCEPT ![t].pc = "store", ![t].off = pw.metas[th[t].cur].off]
    /\ UNCHANGED <<pw, NotPWC, live, freed, op, nops>>

\* current->off += size, the store
PwcStore(t) ==
    /\ th[t].pc = "store"
    /\ pw' = [pw EXCEPT !.metas[th[t].cur].off = PwAdd(th[t].off, th[t].size)]
    /\ th' = [th EXCEPT ![t].pc = "ret"]
    /\ UNCHANGED <<NotPWC, live, freed, op, nops>>

\* return a
PwcReturn(t) ==
    /\ th[t].pc = "ret"
    /\ op' = [MkOp("pw_alloc", th[t].size, NULL, th[t].a) EXCEPT !.cnt0 = t]
    /\ live' = IF th[t].a = NULL THEN live
               ELSE live \cup {<<th[t].a, th[t].size, t, nops>>}
    /\ th' = [th EXCEPT ![t] = PwcLocal]
    /\ UNCHANGED <<pw, NotPWC, freed, nops>>

NextPWC ==
    \E t \in PwcThreads :
        \/ \E size \in PwcSizes : PwcCall(t, size)
        \/ PwcLock(t)
        \/ PwcWalk(t)
        \/ PwcUnlock(t)
        \/ PwcRead(t)
        \/ PwcLoad(t)
        \/ PwcStore(t)
        \/ PwcReturn(t)

\* one watermark list under calls from PwThreads threads
SpecPWC == InitPWC /\ [][NextPWC]_vars

(***************************************************************************)
(* vwatermark.h, vwatermark.c                                              *)
(*                                                                         *)
(* W is the ARC_VWatermark: head the ARC_VWatermarkMeta in list order,     *)
(* each with its free and its allocated list of ARC_VWatermarkNode in list *)
(* order. The nodes come from alloc of the general allocator: got tells    *)
(* whether the alloc of a call delivered a node.                           *)
(***************************************************************************)
\* sizeof(struct ARC_VWatermarkNode)
SizeofVWatermarkNode == 24

\* ADDRESS_IN_META(address, meta)
VW_ADDRESS_IN_META(address, meta) ==
    meta.base <= address /\ address <= meta.base + meta.size

VwNode(base, ceil) == [base |-> base, ceil |-> ceil]

VwEmpty == [head |-> <<>>]

\* the first meta at or after i whose free list is not empty, 0 for NULL
RECURSIVE VwFirstFree(_, _)
VwFirstFree(W, i) ==
    IF i > Len(W.head) THEN 0
    ELSE IF W.head[i].free = <<>> THEN VwFirstFree(W, i + 1)
    ELSE i

\* the first node at or after k with ceil - base >= size, 0 for NULL
RECURSIVE VwFirstFit(_, _, _)
VwFirstFit(list, k, size) ==
    IF k > Len(list) THEN 0
    ELSE IF list[k].ceil - list[k].base < size THEN VwFirstFit(list, k + 1, size)
    ELSE k

\* vwatermark_alloc from node k of the free list of meta m
VwTake(W, m, k, size) ==
    LET free_node == W.head[m].free[k]
        a == free_node.base
        used_up == (free_node.base + size = free_node.ceil)
    IN [W |-> [W EXCEPT
                 ![ "head" ][m].free =
                     IF used_up THEN RemoveAt(@, k)
                     ELSE [@ EXCEPT ![k].base = free_node.base + size],
                 ![ "head" ][m].allocated =
                     <<IF used_up THEN free_node ELSE VwNode(a, a + size)>> \o @],
        ret |-> a,
        \* nodes of the general allocator the call keeps
        kept |-> IF used_up THEN 0 ELSE 1]

vwatermark_alloc(W, size, got) ==
    IF W.head = <<>> \/ size = 0 THEN [W |-> W, ret |-> NULL, kept |-> 0]
    ELSE IF ~got THEN [W |-> W, ret |-> NULL, kept |-> 0]
    ELSE IF VwFirstFree(W, 1) = 0 THEN [W |-> W, ret |-> NULL, kept |-> 0]
    ELSE IF VwFirstFit(W.head[VwFirstFree(W, 1)].free, 1, size) = 0
    THEN [W |-> W, ret |-> NULL, kept |-> 0]
    ELSE VwTake(W, VwFirstFree(W, 1),
                VwFirstFit(W.head[VwFirstFree(W, 1)].free, 1, size), size)

\* vwatermark_attempt_merge: current is node i of the list, next node i + 1;
\* after a merge current moves on to the node behind the merged pair
RECURSIVE vwatermark_attempt_merge(_, _)
vwatermark_attempt_merge(list, i) ==
    IF i + 1 > Len(list) THEN list
    ELSE IF list[i + 1].base = list[i].ceil
    THEN vwatermark_attempt_merge(
             RemoveAt([list EXCEPT ![i].ceil = list[i + 1].ceil], i + 1), i + 1)
    ELSE IF list[i + 1].ceil = list[i].base
    THEN vwatermark_attempt_merge(
             RemoveAt([list EXCEPT ![i].base = list[i + 1].base], i + 1), i + 1)
    ELSE vwatermark_attempt_merge(list, i + 1)

\* the first meta at or after i that holds address, 0 for NULL
RECURSIVE VwFindMeta(_, _, _)
VwFindMeta(W, i, address) ==
    IF i > Len(W.head) THEN 0
    ELSE IF ~VW_ADDRESS_IN_META(address, W.head[i]) THEN VwFindMeta(W, i + 1, address)
    ELSE i

\* the first allocated node at or after k whose base is address, 0 for NULL
RECURSIVE VwFindAllocated(_, _, _)
VwFindAllocated(allocated, k, address) ==
    IF k > Len(allocated) THEN 0
    ELSE IF allocated[k].base # address THEN VwFindAllocated(allocated, k + 1, address)
    ELSE k

vwatermark_free(W, address) ==
    IF address = NULL THEN [W |-> W, ret |-> 0]
    ELSE IF VwFindMeta(W, 1, address) = 0 THEN [W |-> W, ret |-> 0]
    ELSE
    LET m == VwFindMeta(W, 1, address)
        k == VwFindAllocated(W.head[m].allocated, 1, address)
    IN IF k = 0 THEN [W |-> W, ret |-> 0]
       ELSE [W |-> [W EXCEPT
                      ![ "head" ][m].allocated = RemoveAt(@, k),
                      ![ "head" ][m].free =
                          vwatermark_attempt_merge(
                              <<W.head[m].allocated[k]>> \o @, 1)],
             ret |-> W.head[m].allocated[k].ceil - W.head[m].allocated[k].base]

init_vwatermark(W, base, len, got) ==
    IF base = 0 \/ len = 0 THEN [W |-> W, ret |-> -1]
    ELSE IF ~got THEN [W |-> W, ret |-> -2]
    ELSE [W |-> [W EXCEPT !.head =
                    <<[base |-> base, size |-> len,
                       free |-> <<VwNode(base, base + len)>>,
                       allocated |-> <<>>]>> \o @],
          ret |-> 0]

(***************************************************************************)
(* One ARC_VWatermark with one region under vwatermark_alloc and           *)
(* vwatermark_free. pw is the ARC_VWatermark.                              *)
(***************************************************************************)
\* length of the region in units of 16 bytes
VwUnits == 4
\* calls of vwatermark_alloc and vwatermark_free in one run
MaxVwOps == 6

VwBase == PAGE_SIZE_4K
VwLen == 16 * VwUnits
VwSizes == { 16 * k : k \in 1..VwUnits }
VwAddrs == { VwBase + 16 * k : k \in 0..(VwUnits - 1) }

InitVW ==
    /\ pw = init_vwatermark(VwEmpty, VwBase, VwLen, TRUE).W
    /\ pb = Idle /\ fl = Idle /\ pm = Idle /\ ga = Idle /\ vm = Idle /\ th = Idle
    /\ GhostInit

VwAlloc(size, got) ==
    /\ nops < MaxVwOps
    /\ \E a \in {vwatermark_alloc(pw, size, got)} :
          /\ pw' = a.W
          /\ op' = MkOp("vw_alloc", size, NULL, a.ret)
          /\ live' = IF a.ret = NULL THEN live ELSE live \cup {<<a.ret, size>>}
          /\ freed' = freed \ {a.ret}
    /\ nops' = nops + 1
    /\ UNCHANGED NotPW

\* the caller frees a range it holds
VwFree(p) ==
    /\ nops < MaxVwOps
    /\ \E b \in live : b[1] = p
    /\ \E f \in {vwatermark_free(pw, p)} :
          /\ pw' = f.W
          /\ op' = MkOp("vw_free", 0, p, f.ret)
          /\ live' = { b \in live : b[1] # p }
          /\ freed' = freed \cup {p}
    /\ nops' = nops + 1
    /\ UNCHANGED NotPW

NextVW ==
    \/ \E size \in VwSizes : \E got \in BOOLEAN : VwAlloc(size, got)
    \/ \E p \in VwAddrs : VwFree(p)

\* one vwatermark region under callers that free only what they hold
SpecVW == InitVW /\ [][NextVW]_vars

(***************************************************************************)
(* init_pmm as a whole (pmm.c:366-435): the search for the watermark, the   *)
(* bootstrap allocator pmm_init_alloc with the four tables, and             *)
(* pmm_create_freelists. th is the memory map handed to init_pmm, pm the    *)
(* statics of pmm.c, pw the ARC_VWatermark pmm_init_alloc, ga the general   *)
(* allocator behind alloc and free as the caller of init_pmm left it:       *)
(* zeroed, or after init_allocator.                                         *)
(***************************************************************************)
\* half pages by which the length of an entry may exceed whole pages
PiHalves == 2

\* bytes of one per-exponent table, page-aligned
PmmTableSize == PAGE_SIZE

\* the static ARC_PSlabMeta of allocator.c before init_allocator
GaZero ==
    [meta |-> PslabZero, F |-> PslabMemory(NULL, 0),
     vmm |-> init_vbuddy(VmBase, VmSize, PAGE_SIZE_4K, 1).V]

GaInitialised(G) == G.meta.range # NULL

\* the memory maps of the model: a low entry, the entry of the watermark, an
\* entry that may be reserved, and a large high entry
PiMMap(h1, h2, t3, h4) ==
    << [base |-> 2^MaxExp, len |-> 2 * PAGE_SIZE + h1 * (PAGE_SIZE \div 2),
        type |-> "available"],
       [base |-> 2 * 2^MaxExp, len |-> WatermarkSize + h2 * (PAGE_SIZE \div 2),
        type |-> "available"],
       [base |-> 3 * 2^MaxExp, len |-> 2^MaxExp, type |-> t3],
       [base |-> 4 * 2^MaxExp, len |-> 2 * 2^MaxExp + h4 * (PAGE_SIZE \div 2),
        type |-> "available"] >>

\* B is [G, W, calls, early, tables, ret]: the general allocator, the
\* watermark, the calls of alloc made so far, those made before the general
\* allocator was initialised, the tables obtained, and the result
PiHeapAlloc(B) ==
    CHOOSE res \in
      { [B EXCEPT !.G = a.G, !.calls = @ + 1,
                  !.early = @ + (IF GaInitialised(B.G) THEN 0 ELSE 1),
                  !.ret = IF a.ret = NULL THEN -2 ELSE 0] :
        a \in {alloc(B.G, SizeofVWatermarkNode, VmExp)} } : TRUE

\* init_vwatermark(&pmm_init_alloc, &pmm_init_alloc_meta, base, size)
PiInitWatermark(G, base, size) ==
    IF base = 0 \/ size = 0
    THEN [G |-> G, W |-> VwEmpty, calls |-> 0, early |-> 0, tables |-> <<>>,
          ret |-> -1]
    ELSE CHOOSE res \in
           { [B EXCEPT !.W = init_vwatermark(VwEmpty, base, size, B.ret = 0).W] :
             B \in {PiHeapAlloc([G |-> G, W |-> VwEmpty, calls |-> 0, early |-> 0,
                                 tables |-> <<>>, ret |-> 0])} } : TRUE

\* the four vwatermark_alloc(&pmm_init_alloc, size) of init_pmm, n to go
RECURSIVE PiAllocTables(_, _)
PiAllocTables(B, n) ==
    IF n = 0 THEN B
    ELSE CHOOSE res \in
           { PiAllocTables([Ha[1] EXCEPT !.W = Ha[2].W,
                                         !.tables = Append(@, Ha[2].ret),
                                         !.ret = 0], n - 1) :
             Ha \in { <<H, vwatermark_alloc(H.W, PmmTableSize, H.ret = 0)>> :
                      H \in {PiHeapAlloc(B)} } } : TRUE

\* pmm.c:415-427
PiBootstrap(G, base, size) ==
    CHOOSE res \in
      { IF B.ret # 0 THEN B ELSE PiAllocTables(B, 4) :
        B \in {PiInitWatermark(G, base, size)} } : TRUE

\* entries of the carved map that pmm_create_freelists initialises
PiInitialized(mmap) ==
    Cardinality({ i \in DOMAIN mmap : mmap[i].type = "available" })

InitPI ==
    /\ \E biases_high \in BiasTablesHigh : pm = PmmEmpty(biases_high)
    /\ \E h1, h2, h4 \in 0..PiHalves : \E t3 \in {"available", "reserved"} :
          th = PiMMap(h1, h2, t3, h4)
    /\ ga \in { GaZero,
                init_allocator(init_vbuddy(VmBase, VmSize, PAGE_SIZE_4K, 1).V,
                               GaPages, VmExp).G }
    /\ pw = VwEmpty
    /\ pb = Idle /\ fl = Idle /\ vm = Idle
    /\ GhostInit

\* init_pmm(mmap, entries)
PiInit ==
    /\ op.kind = "init"
    /\ \E w \in {WatermarkEntry(th, 1)} :
       \E B \in {PiBootstrap(ga, IF w = 0 THEN 0 ELSE th[w].base, WatermarkSize)} :
          /\ ga' = B.G
          /\ pw' = B.W
          /\ pm' = IF B.ret # 0
                   THEN \* init_vwatermark failed: ARC_HANG
                        [pm EXCEPT !.fault = "hang"]
                   ELSE IF NULL \in Range(B.tables)
                   THEN \* memset over a table that is NULL
                        [pm EXCEPT !.fault = "null"]
                   ELSE IF PiInitialized(CarveWatermark(th, w)) = 0
                   THEN [init_pmm(pm.biases[FALSE], th) EXCEPT !.fault = "hang"]
                   ELSE init_pmm(pm.biases[FALSE], th)
          /\ op' = [MkOp("init_pmm", WatermarkSize, NULL, B.ret) EXCEPT
                      !.cnt0 = B.early, !.cnt1 = B.calls, !.pre = B.tables]
    /\ nops' = nops + 1
    /\ UNCHANGED <<pb, fl, vm, th, live, freed>>

NextPI == PiInit

\* init_pmm over the memory maps of the model
SpecPI == InitPI /\ [][NextPI]_vars


(***************************************************************************)
(* The PMM under callers that may free any address: pmm_free and           *)
(* pmm_fast_page_free of a page the caller holds, of a page freed before,  *)
(* and of an address the PMM never returned.                               *)
(***************************************************************************)

\* calls of entry points in one run
MaxPfOps == 3

\* addresses never returned by the PMM that a caller passes to a free: a
\* page of the reserved entry and the first page of the watermark
PfForeign == { 3 * 2^MaxExp, 2 * 2^MaxExp }

PfAlloc(size) == nops < MaxPfOps /\ PmmAlloc(size, FALSE)

PfFastPageAlloc == nops < MaxPfOps /\ PmmFastPageAlloc

\* pmm_free(p) for any p
PfFree(p) ==
    /\ pm.fault = "none" /\ pm.fl.fault = "none"
    /\ nops < MaxPfOps
    /\ \E f \in {pmm_internal_free(pm, p, FALSE)} :
          /\ pm' = f.P
          /\ op' = [MkOp("pmm_free", 0, p, f.ret) EXCEPT
                      !.who = f.who, !.exp = f.exp]
          /\ live' = { b \in live : b[1] # p }
          /\ freed' = freed \cup {p}
    /\ nops' = nops + 1
    /\ UNCHANGED NotPM

\* pmm_fast_page_free(p) for any p
PfFastPageFree(p) ==
    /\ pm.fault = "none" /\ pm.fl.fault = "none"
    /\ nops < MaxPfOps
    /\ \E f \in {pmm_fast_page_free(pm, p)} :
          /\ pm' = f.P
          /\ op' = [MkOp("pmm_fast_page_free", 0, p, f.ret) EXCEPT
                      !.who = "fast", !.exp = PAGE_SIZE_LOWEST_EXPONENT]
          /\ live' = { b \in live : b[1] # p }
          /\ freed' = freed \cup {p}
    /\ nops' = nops + 1
    /\ UNCHANGED NotPM

\* what a caller may pass to a free: a block it holds, one it freed, or a
\* foreign address
PfArgs == { b[1] : b \in live } \cup freed \cup PfForeign

NextPF ==
    \/ \E size \in PmmSizes : PfAlloc(size)
    \/ PfFastPageAlloc
    \/ \E p \in PfArgs : PfFree(p)
    \/ \E p \in PfArgs : PfFastPageFree(p)

SpecPF == InitPM /\ [][NextPF]_vars


(***************************************************************************)
(* pmm_fast_page_alloc and pmm_fast_page_free called from several threads. *)
(* th[t] is the thread's place in the call and its locals. There is one    *)
(* action per access to fast_page_pool_high, fast_page_allocated_high or   *)
(* the next field of a page: the operand of an ARC_ATOMIC_XCHG is read     *)
(* before the exchange, its result is stored after it.                     *)
(***************************************************************************)
\* threads calling into the fast-page pool
FpThreads == 2
\* calls of pmm_fast_page_alloc and pmm_fast_page_free in one run
MaxFpcOps == 4
\* pages left on the stack when the threads start
FpPool == 2

FpcThreads == 1..FpThreads
FpcLocal == [pc |-> "idle", p |-> NULL, v |-> NULL, node |-> NULL]
FpcRest == <<pb, fl, ga, vm, pw>>

\* the PMM after n calls of pmm_fast_page_alloc by earlier callers
RECURSIVE FpcDrain(_, _)
FpcDrain(P, n) ==
    IF n = 0 THEN P
    ELSE CHOOSE r \in { FpcDrain(a.P, n - 1) : a \in {pmm_fast_page_alloc(P)} } : TRUE

\* the pages of a stack, followed from cur until NULL or a page seen before
RECURSIVE FpcWalk(_, _, _)
FpcWalk(nxt, cur, seen) ==
    IF cur = NULL \/ cur \notin DOMAIN nxt \/ cur \in seen THEN seen
    ELSE FpcWalk(nxt, nxt[cur], seen \cup {cur})

FpcPages(P) == FpcWalk(P.fl.next, P.fast[FALSE].pool, {})

\* the PMM with left pages on the stack, and the pages held
FpcStart(P0, left) ==
    CHOOSE r \in { [P |-> P, held |-> { <<a, 0, 0>> : a \in FpcPages(P0) \ FpcPages(P) }] :
                   P \in {FpcDrain(P0, P0.fast[FALSE].count - left)} } : TRUE

InitFPC ==
    /\ \E s \in { FpcStart(init_pmm(biases_high, BootMMap), left) :
                   biases_high \in BiasTablesHigh, left \in 1..FpPool } :
          pm = s.P /\ live = s.held
    /\ th = [t \in FpcThreads |-> FpcLocal]
    /\ pb = Idle /\ fl = Idle /\ ga = Idle /\ vm = Idle /\ pw = Idle
    /\ freed = {} /\ nops = 0
    /\ op = NoOp

\* pmm_fast_page_alloc, retry: the test of count against allocated
FpcAllocTest(t) ==
    /\ th[t].pc \in {"idle", "retry"}
    /\ th[t].pc = "idle" => nops < MaxFpcOps
    /\ IF pm.fast[FALSE].count = pm.fast[FALSE].allocated
       THEN \* pmm_alloc_fast_pages returns -1: return NULL
            /\ th' = [th EXCEPT ![t] = FpcLocal]
            /\ op' = [MkOp("fp_alloc", PAGE_SIZE, NULL, NULL) EXCEPT !.cnt0 = t]
       ELSE /\ th' = [th EXCEPT ![t] = [FpcLocal EXCEPT !.pc = "null"]]
            /\ UNCHANGED op
    /\ nops' = IF th[t].pc = "idle" THEN nops + 1 ELSE nops
    /\ UNCHANGED <<pm, FpcRest, live, freed>>

\* if (fast_page_pool_high == NULL) goto retry
FpcAllocNull(t) ==
    /\ th[t].pc = "null"
    /\ th' = [th EXCEPT ![t].pc = IF pm.fast[FALSE].pool = NULL THEN "retry"
                                  ELSE "operand"]
    /\ UNCHANGED <<pm, FpcRest, live, freed, op, nops>>

\* the operand &fast_page_pool_high->next: the pool is read again
FpcAllocOperand(t) ==
    /\ th[t].pc = "operand"
    /\ pm.fault = "none"
    /\ IF pm.fast[FALSE].pool = NULL
       THEN \* the address of the next field of a null page
            /\ pm' = [pm EXCEPT !.fault = "null"]
            /\ UNCHANGED th
       ELSE /\ th' = [th EXCEPT ![t].p = pm.fast[FALSE].pool, ![t].pc = "next"]
            /\ UNCHANGED pm
    /\ UNCHANGED <<FpcRest, live, freed, op, nops>>

\* the value to exchange in: the next field of that page
FpcAllocNext(t) ==
    /\ th[t].pc = "next"
    /\ th' = [th EXCEPT ![t].v = pm.fl.next[th[t].p], ![t].pc = "xchg"]
    /\ UNCHANGED <<pm, FpcRest, live, freed, op, nops>>

\* ARC_ATOMIC_XCHG(&fast_page_pool_high, ..., &node): the exchange
FpcAllocXchg(t) ==
    /\ th[t].pc = "xchg"
    /\ pm' = [pm EXCEPT !.fast[FALSE].pool = th[t].v]
    /\ th' = [th EXCEPT ![t].node = pm.fast[FALSE].pool, ![t].pc = "inc"]
    /\ op' = [MkOp("fp_xchg", PAGE_SIZE, th[t].p, pm.fast[FALSE].pool)
                EXCEPT !.cnt0 = t]
    /\ UNCHANGED <<FpcRest, live, freed, nops>>

\* ARC_ATOMIC_INC(fast_page_allocated_high); return node
FpcAllocReturn(t) ==
    /\ th[t].pc = "inc"
    /\ pm' = [pm EXCEPT !.fast[FALSE].allocated = @ + 1]
    /\ op' = [MkOp("fp_alloc", PAGE_SIZE, NULL, th[t].node) EXCEPT !.cnt0 = t]
    /\ live' = IF th[t].node = NULL THEN live
               ELSE live \cup {<<th[t].node, t, nops>>}
    /\ th' = [th EXCEPT ![t] = FpcLocal]
    /\ UNCHANGED <<FpcRest, freed, nops>>

\* pmm_fast_page_free(address) of a page that one of the threads was handed:
\* entry, the test of address, and the exchange that makes the page the head
\* of the pool
FpcFreeXchg(t, b) ==
    /\ th[t].pc = "idle"
    /\ nops < MaxFpcOps
    /\ b \in live /\ b[2] \in FpcThreads
    /\ pm' = [pm EXCEPT !.fast[FALSE].pool = b[1]]
    /\ th' = [th EXCEPT ![t] = [FpcLocal EXCEPT !.pc = "store", !.p = b[1],
                                                !.v = pm.fast[FALSE].pool]]
    /\ live' = live \ {b}
    /\ nops' = nops + 1
    /\ UNCHANGED <<FpcRest, freed, op>>

\* the result of the exchange is stored to entry->next
FpcFreeStore(t) ==
    /\ th[t].pc = "store"
    /\ pm' = [pm EXCEPT !.fl.next[th[t].p] = th[t].v]
    /\ th' = [th EXCEPT ![t].pc = "dec"]
    /\ UNCHANGED <<FpcRest, live, freed, op, nops>>

\* ARC_ATOMIC_DEC(fast_page_allocated_high); return PAGE_SIZE
FpcFreeReturn(t) ==
    /\ th[t].pc = "dec"
    /\ pm' = [pm EXCEPT !.fast[FALSE].allocated = @ - 1]
    /\ op' = [MkOp("fp_free", 0, th[t].p, PAGE_SIZE) EXCEPT !.cnt0 = t]
    /\ th' = [th EXCEPT ![t] = FpcLocal]
    /\ UNCHANGED <<FpcRest, live, freed, nops>>

NextFPC ==
    \E t \in FpcThreads :
        \/ FpcAllocTest(t)
        \/ FpcAllocNull(t)
        \/ FpcAllocOperand(t)
        \/ FpcAllocNext(t)
        \/ FpcAllocXchg(t)
        \/ FpcAllocReturn(t)
        \/ \E b \in live : FpcFreeXchg(t, b)
        \/ FpcFreeStore(t)
        \/ FpcFreeReturn(t)

\* the fast-page pool of the high region under calls from FpThreads threads
SpecFPC == InitFPC /\ [][NextFPC]_vars


(***************************************************************************)
(* vbuddy_alloc and vbuddy_free called from several threads on one meta.   *)
(* Neither function takes the mutex of the meta. th[t] is the thread's     *)
(* place in the call and its locals; current is kept as the base of the    *)
(* node it points to. There is one action per test of a node, per store to *)
(* size, attributes or next; the walk of vbuddy_free is one action.        *)
(***************************************************************************)
\* threads calling into the vbuddy
VbThreads == 2
\* calls of vbuddy_alloc and vbuddy_free in one run of the threads
MaxVbcOps == 3

VbcThreads == 1..VbThreads
VbcSizes == {PAGE_SIZE_4K, 2 * PAGE_SIZE_4K, VmmRange}
VbcLocal == [pc |-> "idle", size |-> 0, current |-> NULL, ret |-> 0]
VbcRest == <<pb, fl, pm, ga, pw>>

InitVBC ==
    /\ vm = [buddy |-> init_vbuddy(VmmBase, VmmRange, PAGE_SIZE_4K, 1).V,
             pager_ok |-> TRUE]
    /\ th = [t \in VbcThreads |-> VbcLocal]
    /\ pb = Idle /\ fl = Idle /\ pm = Idle /\ ga = Idle /\ pw = Idle
    /\ GhostInit

\* the node current points to, 0 when a merge has freed it
VbcAt(t) == VbFind(vm.buddy.tree, 1, th[t].current)

\* a load or store through a pointer to a node that merge gave to ifree
VbcStale(t) ==
    /\ VbcAt(t) = 0
    /\ op' = [MkOp("vb_stale", 0, th[t].current, 0) EXCEPT !.cnt0 = t]
    /\ UNCHANGED <<vm, th, live>>

\* vbuddy_alloc: the tests of the parameters, current = meta->tree
VbcAllocEnter(t, size) ==
    /\ th[t].pc = "idle"
    /\ nops < MaxVbcOps
    /\ vm.buddy.tree # <<>>
    /\ th' = [th EXCEPT ![t] = [VbcLocal EXCEPT
                 !.pc = "a_test", !.size = SIZE_T_NEXT_POW2(size),
                 !.current = vm.buddy.tree[1].base]]
    /\ nops' = nops + 1
    /\ UNCHANGED <<vm, VbcRest, live, freed, op>>

\* one pass of the outer loop: the tests of attributes and size, cycle_end
VbcAllocTest(t) ==
    /\ th[t].pc = "a_test"
    /\ \/ VbcStale(t)
       \/ \E i \in {VbcAt(t)} :
          /\ i # 0
          /\ IF vm.buddy.tree[i].attributes = 1 \/ th[t].size > vm.buddy.tree[i].size
             THEN IF i = Len(vm.buddy.tree)
                  THEN \* current == NULL: return NULL
                       /\ th' = [th EXCEPT ![t] = VbcLocal]
                       /\ op' = [MkOp("vb_alloc", th[t].size, NULL, NULL)
                                   EXCEPT !.cnt0 = t]
                  ELSE /\ th' = [th EXCEPT ![t].current = vm.buddy.tree[i + 1].base]
                       /\ UNCHANGED op
             ELSE /\ th' = [th EXCEPT ![t].pc = "a_loop"]
                  /\ UNCHANGED op
          /\ UNCHANGED <<vm, live>>
    /\ UNCHANGED <<VbcRest, freed, nops>>

\* while (current->size != size): the test, and split up to node->size >>= 1
VbcAllocLoop(t) ==
    /\ th[t].pc = "a_loop"
    /\ \/ VbcStale(t)
       \/ \E i \in {VbcAt(t)} :
          /\ i # 0
          /\ IF vm.buddy.tree[i].size = th[t].size
             THEN th' = [th EXCEPT ![t].pc = "a_take"] /\ UNCHANGED vm
             ELSE IF \/ vm.buddy.tree[i].attributes = 1
                     \/ vm.buddy.tree[i].size = vm.buddy.smallest_object
             THEN \* split returns -1: break
                  th' = [th EXCEPT ![t].pc = "a_take"] /\ UNCHANGED vm
             ELSE /\ vm' = [vm EXCEPT !.buddy.tree[i].size = @ \div 2]
                  /\ th' = [th EXCEPT ![t].pc = "a_link"]
          /\ UNCHANGED <<live, op>>
    /\ UNCHANGED <<VbcRest, freed, nops>>

\* split from meta->ialloc on: the buddy is linked behind node, or the size
\* is restored when ialloc returned NULL
VbcAllocLink(t, ok) ==
    /\ th[t].pc = "a_link"
    /\ \/ VbcStale(t)
       \/ \E i \in {VbcAt(t)} :
          /\ i # 0
          /\ IF ok
             THEN /\ vm' = [vm EXCEPT !.buddy.tree =
                              InsertAfter(@, i,
                                  VbNode(@[i].base + @[i].size, @[i].size, 0))]
                  /\ th' = [th EXCEPT ![t].pc = "a_loop"]
             ELSE /\ vm' = [vm EXCEPT !.buddy.tree[i].size = 2 * @]
                  /\ th' = [th EXCEPT ![t].pc = "a_take"]
          /\ UNCHANGED <<live, op>>
    /\ UNCHANGED <<VbcRest, freed, nops>>

\* current->attributes |= 1; return current->base
VbcAllocTake(t) ==
    /\ th[t].pc = "a_take"
    /\ \/ VbcStale(t)
       \/ \E i \in {VbcAt(t)} :
          /\ i # 0
          /\ vm' = [vm EXCEPT !.buddy.tree[i].attributes = 1]
          /\ th' = [th EXCEPT ![t] = VbcLocal]
          /\ op' = [MkOp("vb_alloc", th[t].size, NULL, th[t].current)
                      EXCEPT !.cnt0 = t]
          /\ live' = live \cup {<<th[t].current, th[t].size, t, nops>>}
    /\ UNCHANGED <<VbcRest, freed, nops>>

\* vbuddy_free(meta, address) of a range a caller holds: the walk and the
\* test of the allocated bit
VbcFreeEnter(t, b) ==
    /\ th[t].pc = "idle"
    /\ nops < MaxVbcOps
    /\ vm.buddy.tree # <<>>
    /\ b \in live
    /\ \E i \in {VbFind(vm.buddy.tree, 1, b[1])} :
          IF i = 0 \/ vm.buddy.tree[i].attributes = 0
          THEN /\ th' = th
               /\ op' = [MkOp("vb_free", 0, b[1], 0) EXCEPT !.cnt0 = t]
          ELSE /\ th' = [th EXCEPT ![t] = [VbcLocal EXCEPT
                           !.pc = "f_clear", !.current = b[1]]]
               /\ UNCHANGED op
    /\ live' = live \ {b}
    /\ nops' = nops + 1
    /\ UNCHANGED <<vm, VbcRest, freed>>

\* ret = current->size; current->attributes &= ~1
VbcFreeClear(t) ==
    /\ th[t].pc = "f_clear"
    /\ \/ VbcStale(t)
       \/ \E i \in {VbcAt(t)} :
          /\ i # 0
          /\ vm' = [vm EXCEPT !.buddy.tree[i].attributes = 0]
          /\ th' = [th EXCEPT ![t].pc = "f_merge", ![t].ret = vm.buddy.tree[i].size]
          /\ UNCHANGED <<live, op>>
    /\ UNCHANGED <<VbcRest, freed, nops>>

\* merge: the tests and base->size <<= 1
VbcFreeMerge(t) ==
    /\ th[t].pc = "f_merge"
    /\ \/ VbcStale(t)
       \/ \E i \in {VbcAt(t)} :
          /\ i # 0
          /\ IF \/ vm.buddy.tree[i].attributes = 1
                \/ i = Len(vm.buddy.tree)
                \/ vm.buddy.tree[IF i = Len(vm.buddy.tree) THEN i ELSE i + 1].attributes = 1
                \/ vm.buddy.tree[i].size #
                     vm.buddy.tree[IF i = Len(vm.buddy.tree) THEN i ELSE i + 1].size
             THEN \* merge returns -1, vbuddy_free returns ret
                  /\ th' = [th EXCEPT ![t] = VbcLocal]
                  /\ op' = [MkOp("vb_free", 0, th[t].current, th[t].ret)
                              EXCEPT !.cnt0 = t]
                  /\ UNCHANGED vm
             ELSE /\ vm' = [vm EXCEPT !.buddy.tree[i].size = 2 * @]
                  /\ th' = [th EXCEPT ![t].pc = "f_unlink"]
                  /\ UNCHANGED op
          /\ UNCHANGED live
    /\ UNCHANGED <<VbcRest, freed, nops>>

\* merge: base->next = base->next->next, meta->ifree(tmp); return ret
VbcFreeUnlink(t) ==
    /\ th[t].pc = "f_unlink"
    /\ \/ VbcStale(t)
       \/ \E i \in {VbcAt(t)} :
          /\ i # 0
          /\ vm' = [vm EXCEPT !.buddy.tree =
                       IF i = Len(@) THEN @ ELSE RemoveAt(@, i + 1)]
          /\ th' = [th EXCEPT ![t] = VbcLocal]
          /\ op' = [MkOp("vb_free", 0, th[t].current, th[t].ret) EXCEPT !.cnt0 = t]
          /\ UNCHANGED live
    /\ UNCHANGED <<VbcRest, freed, nops>>

NextVBC ==
    \E t \in VbcThreads :
        \/ \E size \in VbcSizes : VbcAllocEnter(t, size)
        \/ VbcAllocTest(t)
        \/ VbcAllocLoop(t)
        \/ \E ok \in BOOLEAN : VbcAllocLink(t, ok)
        \/ VbcAllocTake(t)
        \/ \E b \in live : VbcFreeEnter(t, b)
        \/ VbcFreeClear(t)
        \/ VbcFreeMerge(t)
        \/ VbcFreeUnlink(t)

\* one vbuddy under calls from VbThreads threads
SpecVBC == InitVBC /\ [][NextVBC]_vars

(***************************************************************************)
(* pbuddy_alloc and pbuddy_free called from several threads on one list.   *)
(* th[t] is the thread's place in the call and its locals. The walks under *)
(* order_lock are one action each; outside the lock there is one action    *)
(* per read of a free-list head, per ARC_ATOMIC_XCHG and per pbuddy_split; *)
(* pbuddy_merge is two actions, its walk and its unlink.                   *)
(***************************************************************************)
\* threads calling into the buddy list
PbThreads == 2
\* calls of pbuddy_alloc and pbuddy_free in one run of the threads
MaxPbcOps == 4

PbcThreads == 1..PbThreads
PbcSizes == {2^MinExp, 2^(MinExp + 1)}
PbcLocal == [pc |-> "idle", size |-> 0, exp |-> 0, r |-> NULL, node |-> NULL,
             i |-> 0, c |-> 0, t |-> NULL, a |-> NULL, current |-> NULL,
             last |-> NULL, con |-> FALSE]

\* the threads inside a pbuddy_free of the block at address p
PbcFreeing(p) ==
    { u \in PbcThreads :
        th[u].pc \in {"rel_read", "rel_merge", "rel_push"} /\ th[u].node = p }

InitPBC ==
    /\ pb = PBInit
    /\ th = [t \in PbcThreads |-> PbcLocal]
    /\ fl = Idle /\ pm = Idle /\ ga = Idle /\ vm = Idle /\ pw = Idle
    /\ GhostInit

PbcGo(t, pc) == [th EXCEPT ![t].pc = pc]

\* the return of pbuddy_alloc with a
PbcAllocReturn(t, a) ==
    /\ th' = [u \in PbcThreads |->
                IF u = t THEN PbcLocal
                ELSE IF a # NULL /\
                        u \in PbcFreeing(XorBit(a, Ctz(SIZE_T_NEXT_POW2(th[t].size))))
                THEN [th[u] EXCEPT !.con = TRUE]
                ELSE th[u]]
    /\ op' = [MkOp("alloc", th[t].size, NULL, a) EXCEPT !.cnt0 = t]
    /\ live' = IF a = NULL THEN live
               ELSE live \cup {<<a, SIZE_T_NEXT_POW2(th[t].size), t, nops>>}
    /\ freed' = freed \ {a}

\* pbuddy_alloc: entry, rounding, the test of the parameters
PbcAllocEnter(t, size) ==
    /\ pb.fault = "none"
    /\ th[t].pc = "idle"
    /\ nops < MaxPbcOps
    /\ th' = [th EXCEPT ![t] = [PbcLocal EXCEPT
                 !.size = size,
                 !.exp = Ctz(SIZE_T_NEXT_POW2(size)),
                 !.pc = IF \/ pb.head = <<>>
                           \/ Ctz(SIZE_T_NEXT_POW2(size)) < pb.min_exp
                           \/ Ctz(SIZE_T_NEXT_POW2(size)) > pb.exp
                        THEN "a_after" ELSE "a_lock"]]
    /\ nops' = nops + 1
    /\ UNCHANGED <<pb, NotPBC, live, freed, op>>

\* retry: the walk and the head promotion under order_lock
PbcAllocLock(t) ==
    /\ pb.fault = "none"
    /\ th[t].pc = "a_lock"
    /\ \E k \in {FirstWithFree(pb, pb.head, 1)} :
          IF k = 0
          THEN /\ PbcAllocReturn(t, NULL)
               /\ UNCHANGED pb
          ELSE /\ pb' = [pb EXCEPT !.head = Promote(pb.head, k)]
               /\ th' = [th EXCEPT ![t].pc = "acq_read", ![t].r = pb.head[k]]
               /\ UNCHANGED <<live, freed, op>>
    /\ UNCHANGED <<NotPBC, nops>>

\* pbuddy_acquire: node = meta->free[exp_idx] and the test of its canaries
PbcAcqRead(t) ==
    /\ pb.fault = "none"
    /\ th[t].pc = "acq_read"
    /\ \E node \in {pb.metas[th[t].r].free[th[t].exp - pb.min_exp]} :
          th' = [th EXCEPT ![t].node = node,
                           ![t].pc = IF node # NULL /\ CanariesValid(pb, node)
                                     THEN "acq_xchg1" ELSE "acq_scan"]
    /\ UNCHANGED <<pb, NotPBC, live, freed, op, nops>>

\* retry1: ARC_ATOMIC_XCHG(&meta->free[exp_idx], &node->next, &ret) and the
\* tests of ret
PbcAcqXchg1(t) ==
    /\ pb.fault = "none"
    /\ th[t].pc = "acq_xchg1"
    /\ IF th[t].node = NULL
       THEN /\ pb' = [pb EXCEPT !.fault = "null"]
            /\ UNCHANGED th
       ELSE \E ret \in {pb.metas[th[t].r].free[th[t].exp - pb.min_exp]} :
            /\ pb' = [pb EXCEPT !.metas[th[t].r].free[th[t].exp - pb.min_exp] =
                                    pb.next[th[t].node]]
            /\ th' = [th EXCEPT ![t].a = IF ret = th[t].node THEN ret ELSE NULL,
                                ![t].pc = IF ret = NULL THEN "acq_scan"
                                          ELSE IF ret # th[t].node THEN "acq_reread1"
                                          ELSE "a_after"]
    /\ UNCHANGED <<NotPBC, live, freed, op, nops>>

\* node = meta->free[exp_idx]; goto retry1
PbcAcqReread1(t) ==
    /\ pb.fault = "none"
    /\ th[t].pc = "acq_reread1"
    /\ th' = [th EXCEPT ![t].node = pb.metas[th[t].r].free[th[t].exp - pb.min_exp],
                        ![t].pc = "acq_xchg1"]
    /\ UNCHANGED <<pb, NotPBC, live, freed, op, nops>>

\* split: the scan of the larger lists for a base node
PbcAcqScan(t) ==
    /\ pb.fault = "none"
    /\ th[t].pc = "acq_scan"
    /\ \E n \in {pb.exp - pb.min_exp + 1} :
       \E i \in {ScanUp(pb.metas[th[t].r].free, th[t].exp - pb.min_exp + 1, n)} :
          th' = [th EXCEPT ![t].i = i,
                           ![t].c = i - (th[t].exp - pb.min_exp),
                           ![t].node = IF i < n THEN pb.metas[th[t].r].free[i]
                                       ELSE IF th[t].exp - pb.min_exp + 1 < n
                                       THEN NULL ELSE @,
                           ![t].pc = "acq_xchg2"]
    /\ UNCHANGED <<pb, NotPBC, live, freed, op, nops>>

\* retry: the test of node, ARC_ATOMIC_XCHG(&meta->free[i], &node->next, &ret)
\* and the test of ret
PbcAcqXchg2(t) ==
    /\ pb.fault = "none"
    /\ th[t].pc = "acq_xchg2"
    /\ IF th[t].node = NULL
       THEN /\ th' = [th EXCEPT ![t].a = NULL, ![t].pc = "a_after"]
            /\ UNCHANGED pb
       ELSE IF th[t].i > pb.exp - pb.min_exp
       THEN /\ pb' = [pb EXCEPT !.fault = "oob"]
            /\ UNCHANGED th
       ELSE \E ret \in {pb.metas[th[t].r].free[th[t].i]} :
            /\ pb' = [pb EXCEPT !.metas[th[t].r].free[th[t].i] = pb.next[th[t].node]]
            /\ th' = PbcGo(t, IF ret # th[t].node THEN "acq_reread2" ELSE "acq_canary")
    /\ UNCHANGED <<NotPBC, live, freed, op, nops>>

\* node = meta->free[i]; goto retry
PbcAcqReread2(t) ==
    /\ pb.fault = "none"
    /\ th[t].pc = "acq_reread2"
    /\ th' = [th EXCEPT ![t].node = pb.metas[th[t].r].free[th[t].i],
                        ![t].pc = "acq_xchg2"]
    /\ UNCHANGED <<pb, NotPBC, live, freed, op, nops>>

\* the test of the canaries of the node taken for splitting
PbcAcqCanary(t) ==
    /\ pb.fault = "none"
    /\ th[t].pc = "acq_canary"
    /\ th' = IF CanariesValid(pb, th[t].node)
             THEN PbcGo(t, "acq_split")
             ELSE [th EXCEPT ![t].a = NULL, ![t].pc = "a_after"]
    /\ UNCHANGED <<pb, NotPBC, live, freed, op, nops>>

\* one round of for (; c > 0; c--) pbuddy_split(meta, node)
PbcAcqSplit(t) ==
    /\ pb.fault = "none"
    /\ th[t].pc = "acq_split"
    /\ \E s \in {pbuddy_split(pb, th[t].r, th[t].node)} :
          IF s.ret # 0
          THEN /\ pb' = PushFree(s.S, th[t].r, th[t].i, th[t].node)
               /\ th' = [th EXCEPT ![t].a = NULL, ![t].pc = "a_after"]
          ELSE /\ pb' = s.S
               /\ th' = [th EXCEPT ![t].c = @ - 1,
                                   ![t].a = IF th[t].c = 1 THEN th[t].node ELSE NULL,
                                   ![t].pc = IF th[t].c = 1 THEN "a_after"
                                             ELSE "acq_split"]
    /\ UNCHANGED <<NotPBC, live, freed, op, nops>>

\* pbuddy_alloc after pbuddy_acquire: a new region and retry, or return a
PbcAllocAfter(t) ==
    /\ pb.fault = "none"
    /\ th[t].pc = "a_after"
    /\ IF th[t].a # NULL \/ pb.head = <<>>
       THEN /\ PbcAllocReturn(t, th[t].a)
            /\ UNCHANGED pb
       ELSE \E ini \in {init_pbuddy(pb, pmm_alloc_region(pb), pb.exp, pb.min_exp)} :
            IF ini.ret = 0
            THEN /\ pb' = ini.S
                 /\ th' = PbcGo(t, "a_lock")
                 /\ UNCHANGED <<live, freed, op>>
            ELSE /\ PbcAllocReturn(t, NULL)
                 /\ UNCHANGED pb
    /\ UNCHANGED <<NotPBC, nops>>

\* pbuddy_free of a block the caller holds: entry and the walk under
\* order_lock
PbcFreeEnter(t, p) ==
    /\ pb.fault = "none"
    /\ th[t].pc = "idle"
    /\ nops < MaxPbcOps
    /\ \E b \in live :
          /\ b[1] = p
          /\ live' = live \ {b}
          /\ \E r \in {FindMeta(pb, pb.head, 1, p)} :
             \E peers \in {PbcFreeing(XorBit(p, Ctz(b[2])))} :
                th' = [u \in PbcThreads |->
                         IF u = t
                         THEN [PbcLocal EXCEPT
                                 !.r = r, !.node = p, !.t = p,
                                 !.exp = Ctz(b[2]), !.con = (peers # {}),
                                 !.pc = IF r = 0 THEN "rel_push" ELSE "rel_read"]
                         ELSE IF u \in peers THEN [th[u] EXCEPT !.con = TRUE]
                         ELSE th[u]]
    /\ nops' = nops + 1
    /\ UNCHANGED <<pb, NotPBC, freed, op>>

\* pbuddy_release: exp = meta->node_metas[idx].exp; size = 1 << exp
PbcRelRead(t) ==
    /\ pb.fault = "none"
    /\ th[t].pc = "rel_read"
    /\ th' = [th EXCEPT ![t].size =
                   2^pb.metas[th[t].r].node_metas[
                        pbuddy_ptr2idx(pb.metas[th[t].r], th[t].node)],
                        ![t].pc = "rel_merge"]
    /\ UNCHANGED <<pb, NotPBC, live, freed, op, nops>>

\* pbuddy_merge(meta, t) up to the end of its walk over free[exp_idx]: the
\* tests of exp and of the buddy's canaries, the clearing of the secondary's
\* canaries, the walk
PbcRelMerge(t) ==
    /\ pb.fault = "none"
    /\ th[t].pc = "rel_merge"
    /\ \E meta \in {pb.metas[th[t].r]} :
       \E exp \in {meta.node_metas[pbuddy_ptr2idx(meta, th[t].t)]} :
          IF exp >= meta.exp
          THEN /\ th' = PbcGo(t, "rel_push")
               /\ UNCHANGED pb
          ELSE IF exp < meta.min_exp \/ XorBit(th[t].t, exp) \notin DOMAIN pb.canary_high
          THEN /\ pb' = [pb EXCEPT !.fault = "oob"]
               /\ UNCHANGED th
          ELSE IF ~CanariesValid(pb, XorBit(th[t].t, exp))
          THEN /\ th' = PbcGo(t, "rel_push")
               /\ UNCHANGED pb
          ELSE \E secondary \in {Max2(th[t].t, XorBit(th[t].t, exp))} :
               \E S1 \in {[pb EXCEPT !.canary_high[secondary] = CLEARED,
                                     !.canary_low[secondary] = CLEARED]} :
               \E w \in {MergeWalk(S1, meta.free[exp - meta.min_exp], NULL,
                                   XorBit(th[t].t, exp), {})} :
                  /\ pb' = IF w.hang THEN [S1 EXCEPT !.fault = "hang"] ELSE S1
                  /\ th' = IF w.hang THEN th
                           ELSE IF w.current = NULL THEN PbcGo(t, "rel_push")
                           ELSE [th EXCEPT ![t].current = w.current,
                                           ![t].last = w.last,
                                           ![t].i = exp - meta.min_exp,
                                           ![t].pc = "rel_unlink"]
    /\ UNCHANGED <<NotPBC, live, freed, op, nops>>

\* pbuddy_merge after its walk found the buddy: the unlink of current, the
\* increment of the exponent, the return of primary to the loop of
\* pbuddy_release
PbcRelUnlink(t) ==
    /\ pb.fault = "none"
    /\ th[t].pc = "rel_unlink"
    /\ pb' = [(IF th[t].last # NULL
               THEN [pb EXCEPT !.next[th[t].last] = pb.next[th[t].current]]
               ELSE [pb EXCEPT !.metas[th[t].r].free[th[t].i] =
                                   pb.next[th[t].current]])
              EXCEPT !.metas[th[t].r].node_metas[
                         pbuddy_ptr2idx(pb.metas[th[t].r], th[t].t)] = @ + 1]
    /\ th' = [th EXCEPT ![t].t = Min2(th[t].t, th[t].current),
                        ![t].current = NULL, ![t].last = NULL, ![t].i = 0,
                        ![t].pc = "rel_merge"]
    /\ UNCHANGED <<NotPBC, live, freed, op, nops>>

\* the canaries of node, the push of t, and the return of pbuddy_free
PbcRelPush(t) ==
    /\ pb.fault = "none"
    /\ th[t].pc = "rel_push"
    /\ IF th[t].r = 0
       THEN /\ op' = [MkOp("free", 0, th[t].node, 0) EXCEPT
                         !.cnt0 = t, !.who = IF th[t].con THEN "pair" ELSE "none"]
            /\ UNCHANGED pb
       ELSE \E f \in {ReleasePush(pb, th[t].r, th[t].node, th[t].t, th[t].size)} :
            /\ pb' = f.S
            /\ op' = [MkOp("free", 0, th[t].node, f.ret) EXCEPT
                         !.cnt0 = t, !.who = IF th[t].con THEN "pair" ELSE "none",
                         !.exp = th[t].exp]
    /\ freed' = freed \cup {th[t].node}
    /\ th' = [th EXCEPT ![t] = PbcLocal]
    /\ UNCHANGED <<NotPBC, live, nops>>

NextPBC ==
    \E t \in PbcThreads :
        \/ \E size \in PbcSizes : PbcAllocEnter(t, size)
        \/ PbcAllocLock(t)
        \/ PbcAcqRead(t)
        \/ PbcAcqXchg1(t)
        \/ PbcAcqReread1(t)
        \/ PbcAcqScan(t)
        \/ PbcAcqXchg2(t)
        \/ PbcAcqReread2(t)
        \/ PbcAcqCanary(t)
        \/ PbcAcqSplit(t)
        \/ PbcAllocAfter(t)
        \/ \E p \in Units : PbcFreeEnter(t, p)
        \/ PbcRelRead(t)
        \/ PbcRelMerge(t)
        \/ PbcRelUnlink(t)
        \/ PbcRelPush(t)

\* one buddy list under calls from PbThreads threads
SpecPBC == InitPBC /\ [][NextPBC]_vars

(***************************************************************************)
(* The order_lock of the buddy list. pb.order_lock is the thread that      *)
(* holds the spinlock, 0 when it is free; spinlock_lock is an action that  *)
(* waits for 0. The walks under the lock are one action each, ending with  *)
(* their spinlock_unlock; pbuddy_acquire, pbuddy_release and the part of   *)
(* init_pbuddy before its lock are one action each.                        *)
(***************************************************************************)
\* calls of pbuddy_alloc and pbuddy_free in one run of the threads
MaxPblOps == 2

PblSizes == {2^MinExp, 2^MaxExp, 2^(MaxExp + 1)}

\* the places of a call between spinlock_lock and spinlock_unlock
PblLocked == {"a_walk", "f_walk", "i_link"}
\* the places of a call at a spinlock_lock
PblWaiting == {"a_lock", "f_lock", "i_lock"}

\* the list after init_pbuddy and one pbuddy_alloc of the smallest size,
\* whose block a caller holds
InitPBL ==
    /\ \E a \in {pbuddy_alloc(PBInit, 2^MinExp)} :
          /\ pb = a.S
          /\ live = {<<a.ret, 2^MinExp, 0, 0>>}
    /\ th = [t \in PbcThreads |-> PbcLocal]
    /\ fl = Idle /\ pm = Idle /\ ga = Idle /\ vm = Idle /\ pw = Idle
    /\ freed = {}
    /\ op = NoOp
    /\ nops = 0

\* pbuddy_alloc: entry, rounding, the test of the parameters
PblAllocEnter(t, size) ==
    /\ pb.fault = "none"
    /\ th[t].pc = "idle"
    /\ nops < MaxPblOps
    /\ th' = [th EXCEPT ![t] = [PbcLocal EXCEPT
                 !.size = size, !.exp = Ctz(SIZE_T_NEXT_POW2(size)),
                 !.pc = IF \/ pb.head = <<>>
                           \/ Ctz(SIZE_T_NEXT_POW2(size)) < pb.min_exp
                           \/ Ctz(SIZE_T_NEXT_POW2(size)) > pb.exp
                        THEN "a_return" ELSE "a_lock"]]
    /\ nops' = nops + 1
    /\ UNCHANGED <<pb, NotPBC, live, freed, op>>

\* the return of NULL for improper parameters
PblAllocReject(t) ==
    /\ pb.fault = "none"
    /\ th[t].pc = "a_return"
    /\ PbcAllocReturn(t, NULL)
    /\ UNCHANGED <<pb, NotPBC, nops>>

\* retry: spinlock_lock(&list->order_lock)
PblAllocLock(t) ==
    /\ pb.fault = "none"
    /\ th[t].pc = "a_lock"
    /\ pb.order_lock = 0
    /\ pb' = [pb EXCEPT !.order_lock = t]
    /\ th' = PbcGo(t, "a_walk")
    /\ UNCHANGED <<NotPBC, live, freed, op, nops>>

\* the walk of pbuddy_alloc, the head promotion and spinlock_unlock on both
\* of its paths
PblAllocWalk(t) ==
    /\ pb.fault = "none"
    /\ th[t].pc = "a_walk"
    /\ \E k \in {FirstWithFree(pb, pb.head, 1)} :
          IF k = 0
          THEN /\ pb' = [pb EXCEPT !.order_lock = 0]
               /\ PbcAllocReturn(t, NULL)
          ELSE /\ pb' = [pb EXCEPT !.head = Promote(pb.head, k), !.order_lock = 0]
               /\ th' = [th EXCEPT ![t].pc = "a_acquire", ![t].r = pb.head[k]]
               /\ UNCHANGED <<live, freed, op>>
    /\ UNCHANGED <<NotPBC, nops>>

\* a walk of pbuddy_free that leaves without spinlock_unlock
PblFreeWalkHold(t) ==
    /\ pb.fault = "none"
    /\ th[t].pc = "f_walk"
    /\ th' = [th EXCEPT ![t].r = FindMeta(pb, pb.head, 1, th[t].node),
                        ![t].pc = "f_release"]
    /\ UNCHANGED <<pb, NotPBC, live, freed, op, nops>>

\* void *a = pbuddy_acquire(current, exp), and the return of a non-null a
PblAllocAcquire(t) ==
    /\ pb.fault = "none"
    /\ th[t].pc = "a_acquire"
    /\ \E a \in {pbuddy_acquire(pb, th[t].r, th[t].exp)} :
          /\ pb' = a.S
          /\ IF a.ret # NULL
             THEN PbcAllocReturn(t, a.ret)
             ELSE /\ th' = PbcGo(t, "a_init")
                  /\ UNCHANGED <<live, freed, op>>
    /\ UNCHANGED <<NotPBC, nops>>

\* init_pbuddy up to its spinlock_lock: pmm_alloc(1 << list->exp), the test
\* of the parameters, the new meta; pbuddy_alloc returns NULL when it fails
PblInitBody(t) ==
    /\ pb.fault = "none"
    /\ th[t].pc = "a_init"
    /\ \E base \in {pmm_alloc_region(pb)} :
          IF base = NULL
          THEN /\ PbcAllocReturn(t, NULL)
               /\ UNCHANGED pb
          ELSE /\ pb' = [pb EXCEPT !.pool = Tail(@)]
               /\ th' = [th EXCEPT ![t].node = base, ![t].pc = "i_lock"]
               /\ UNCHANGED <<live, freed, op>>
    /\ UNCHANGED <<NotPBC, nops>>

\* init_pbuddy: spinlock_lock(&list->order_lock)
PblInitLock(t) ==
    /\ pb.fault = "none"
    /\ th[t].pc = "i_lock"
    /\ pb.order_lock = 0
    /\ pb' = [pb EXCEPT !.order_lock = t]
    /\ th' = PbcGo(t, "i_link")
    /\ UNCHANGED <<NotPBC, live, freed, op, nops>>

\* init_pbuddy: the new meta becomes the head, spinlock_unlock, return 0;
\* pbuddy_alloc goes to retry
PblInitLink(t) ==
    /\ pb.fault = "none"
    /\ th[t].pc = "i_link"
    /\ \E ini \in {init_pbuddy([pb EXCEPT !.pool = <<th[t].node>> \o @],
                               th[t].node, pb.exp, pb.min_exp)} :
          pb' = [ini.S EXCEPT !.order_lock = 0]
    /\ th' = [th EXCEPT ![t].node = NULL, ![t].pc = "a_lock"]
    /\ UNCHANGED <<NotPBC, live, freed, op, nops>>

\* pbuddy_free of a block the caller holds: entry
PblFreeEnter(t, p) ==
    /\ pb.fault = "none"
    /\ th[t].pc = "idle"
    /\ nops < MaxPblOps
    /\ \E b \in live :
          /\ b[1] = p
          /\ live' = live \ {b}
    /\ th' = [th EXCEPT ![t] = [PbcLocal EXCEPT !.node = p, !.pc = "f_lock"]]
    /\ nops' = nops + 1
    /\ UNCHANGED <<pb, NotPBC, freed, op>>

\* pbuddy_free: spinlock_lock(&list->order_lock)
PblFreeLock(t) ==
    /\ pb.fault = "none"
    /\ th[t].pc = "f_lock"
    /\ pb.order_lock = 0
    /\ pb' = [pb EXCEPT !.order_lock = t]
    /\ th' = PbcGo(t, "f_walk")
    /\ UNCHANGED <<NotPBC, live, freed, op, nops>>

\* the walk of pbuddy_free and its spinlock_unlock
PblFreeWalk(t) ==
    /\ pb.fault = "none"
    /\ th[t].pc = "f_walk"
    /\ pb' = [pb EXCEPT !.order_lock = 0]
    /\ th' = [th EXCEPT ![t].r = FindMeta(pb, pb.head, 1, th[t].node),
                        ![t].pc = "f_release"]
    /\ UNCHANGED <<NotPBC, live, freed, op, nops>>

\* the test of current, pbuddy_release, the return of pbuddy_free
PblFreeRelease(t) ==
    /\ pb.fault = "none"
    /\ th[t].pc = "f_release"
    /\ IF th[t].r = 0
       THEN /\ op' = [MkOp("free", 0, th[t].node, 0) EXCEPT !.cnt0 = t]
            /\ UNCHANGED pb
       ELSE \E f \in {pbuddy_release(pb, th[t].r, th[t].node)} :
            /\ pb' = f.S
            /\ op' = [MkOp("free", 0, th[t].node, f.ret) EXCEPT !.cnt0 = t]
    /\ freed' = freed \cup {th[t].node}
    /\ th' = [th EXCEPT ![t] = PbcLocal]
    /\ UNCHANGED <<NotPBC, live, nops>>

\* the steps of a call under way
PblStep(t) ==
    \/ PblAllocReject(t)
    \/ PblAllocLock(t)
    \/ PblAllocWalk(t)
    \/ PblAllocAcquire(t)
    \/ PblInitBody(t)
    \/ PblInitLock(t)
    \/ PblInitLink(t)
    \/ PblFreeLock(t)
    \/ PblFreeWalk(t)
    \/ PblFreeRelease(t)

NextPBL ==
    \E t \in PbcThreads :
        \/ \E size \in PblSizes : PblAllocEnter(t, size)
        \/ \E p \in Units : PblFreeEnter(t, p)
        \/ PblStep(t)

\* one buddy list and its order_lock under calls from PbThreads threads
SpecPBL == InitPBL /\ [][NextPBL]_vars

(***************************************************************************)
(* Free lists as the code sees them: the nodes reached from a head by      *)
(* following next, cut at the first repetition.                            *)
(***************************************************************************)
RECURSIVE Chain(_, _, _)
Chain(nxt, cur, acc) ==
    IF cur = NULL \/ cur \notin DOMAIN nxt \/ cur \in Range(acc) THEN acc
    ELSE Chain(nxt, nxt[cur], Append(acc, cur))

Cyclic(nxt, head) ==
    LET c == Chain(nxt, head, <<>>)
    IN c # <<>> /\ nxt[c[Len(c)]] # NULL

PBFreeList(r, i) == Chain(pb.next, pb.metas[r].free[i], <<>>)
PBChain == Range(pb.head)
ExpIdxs == 0..Depth
FlFreeChain == Chain(fl.next, fl.metas[FlBase].head, <<>>)

Overlap(a, sa, b, sb) == a < b + sb /\ b < a + sa

(***************************************************************************)
(* Claims about the buddy allocator                                        *)
(***************************************************************************)
\* C1: a successful pbuddy_alloc returns a non-null block inside its region,
\* aligned to its rounded size relative to base, overlapping no live block
C1_AllocInRegionAlignedDisjoint ==
    (op.kind = "alloc" /\ op.ret # NULL) =>
        LET sz == SIZE_T_NEXT_POW2(op.size)
            base == op.region
        IN /\ op.region \in PBChain
           /\ base <= op.ret /\ op.ret + sz <= base + 2^MaxExp
           /\ (op.ret - base) % sz = 0
           /\ \A b \in op.prelive : ~Overlap(op.ret, sz, b[1], b[2])

\* C2: with no live allocation every region is back to one free block of
\* exponent max_exp at base and all other lists empty
C2_RoundTrip ==
    (live = {} /\ pb.fault = "none") =>
        \A r \in PBChain : \A i \in ExpIdxs :
            PBFreeList(r, i) = IF i = Depth THEN <<r>> ELSE <<>>

\* C5: every block on a free list carries both canaries, and a block just
\* returned by pbuddy_alloc carries none
C5_CanaryLaw ==
    /\ \A r \in PBChain : \A i \in ExpIdxs :
          \A a \in Range(PBFreeList(r, i)) : CanariesValid(pb, a)
    /\ (op.kind = "alloc" /\ op.ret # NULL) =>
          /\ pb.canary_low[op.ret] = CLEARED
          /\ pb.canary_high[op.ret] = CLEARED

\* C7: pbuddy_free of a live block returns the size handed out for it
C7_FreeReturnsSize ==
    op.kind = "free" =>
        \A b \in op.prelive : b[1] = op.addr => op.ret = b[2]

\* C9: on a fresh region pbuddy_alloc of exponent e makes max_exp - e splits,
\* returns base, and leaves one free block on each list e .. max_exp - 1
C9_SplitCount ==
    (op.kind = "alloc" /\ op.fresh) =>
        LET e == Ctz(SIZE_T_NEXT_POW2(op.size))
        IN /\ op.splits = MaxExp - e
           /\ op.ret = op.region
           /\ \A i \in ExpIdxs :
                Len(PBFreeList(op.region, i)) =
                    IF e - MinExp <= i /\ i < Depth THEN 1 ELSE 0

\* a fresh region served a request of the smallest size, splitting all the way
C9_FreshSmallestAlloc ==
    op.kind = "alloc" /\ op.fresh /\ op.ret # NULL /\ op.splits = Depth

(***************************************************************************)
(* Claims about the freelist allocator                                     *)
(***************************************************************************)
\* C3: at every quiescent point of a freelist region free_objects equals the
\* number of nodes reachable from head
C3_FreeObjectsMatchesChain ==
    fl.fault = "none" => fl.metas[FlBase].free_objects = Len(FlFreeChain)

\* C4: the second of two frees of the same block, with no allocation of it in
\* between, returns 0 and leaves the allocator's state unchanged
C4_DoubleFreeRejected ==
    op.kind \in {"fl_free_again", "free_again"} => op.ret = NULL /\ op.same

\* C8: a successful pfreelist_alloc lowers free_objects by one, a successful
\* pfreelist_free raises it by one, and a pfreelist_alloc directly after
\* pfreelist_free(p) returns p
C8_LifoCountsByOne ==
    /\ (op.kind = "fl_alloc" /\ op.ret # NULL) => op.cnt1 = op.cnt0 - 1
    /\ (op.kind = "fl_free" /\ op.ret # NULL) => op.cnt1 = op.cnt0 + 1
    /\ (op.kind = "fl_alloc" /\ op.prevkind = "fl_free") => op.ret = op.prevaddr

(***************************************************************************)
(* Claims about the physical memory manager                                *)
(***************************************************************************)
\* C6: the sub-allocator that claims a block in pmm_free is the one that
\* handed it out: the fast-page pool, the freelist of the block's exponent,
\* or a buddy rooted at an exponent not below it
C6_OneClaimant ==
    op.kind = "pmm_free" =>
        \A b \in op.prelive : b[1] = op.addr =>
            /\ op.who = b[3]
            /\ op.who = "freelist" => op.exp = b[4]
            /\ op.who = "buddy" => op.exp = b[4] /\ 2^op.exp >= b[2]

(***************************************************************************)
(* Claims about the general allocator                                      *)
(***************************************************************************)
\* C10: alloc(n) is served by the SLAB iff n <= PAGE_SIZE/2 and by the
\* large-allocation path iff n > PAGE_SIZE/2; free of a SLAB object succeeds
\* in the SLAB and the large-allocation path would reject it; free of a
\* large allocation is rejected by the SLAB and succeeds through vmm_free
C10_Routing ==
    /\ op.kind = "ga_alloc" =>
          /\ op.who = "slab" <=> op.size <= PAGE_SIZE_4K \div 2
          /\ op.who = "vmm" <=> op.size > PAGE_SIZE_4K \div 2
    /\ op.kind = "ga_free" =>
          \A b \in op.prelive : b[1] = op.addr =>
             /\ b[3] = "slab" =>
                   op.slab = op.addr /\ op.ret = op.addr /\ op.vmm = -1 /\ op.would = 0
             /\ b[3] = "vmm" =>
                   op.slab = NULL /\ op.vmm > 0 /\ op.ret = op.vmm

\* a large allocation and a SLAB object of the threshold size are live, and
\* the large one has just been freed through vmm_free
C10_LargeFreedBesideSlab ==
    /\ op.kind = "ga_free" /\ op.slab = NULL /\ op.vmm > 0
    /\ \E b \in op.prelive : b[1] = op.addr /\ b[2] = PAGE_SIZE_4K \div 2 + 1
    /\ \E b \in live : b[3] = "slab" /\ b[2] = PAGE_SIZE_4K \div 2

\* C11: calloc(size, count) returns null or a block of at least size * count
\* bytes, and takes the route alloc(size * count) would take
C11_CallocSizeAndRoute ==
    op.kind = "ga_calloc" =>
        /\ op.who = op.alt
        /\ op.ret # NULL => op.granted >= op.size

(***************************************************************************)
(* Claims about the physical memory manager                                *)
(***************************************************************************)
\* C13: pmm_alloc, pmm_low_alloc and pmm_fast_page_alloc return to their
\* caller: a request that cannot be satisfied ends with a null return, never
\* in ARC_HANG or in a loop without exit
C13_AllocReturns ==
    op.kind \in {"pmm_alloc", "pmm_low_alloc", "pmm_fast_page_alloc"} =>
        pm.fault # "hang"

\* exponents of the bias table a PMM call works with
OpBiasExps ==
    { pm.biases[op.kind = "pmm_low_alloc"][i].exp :
        i \in 1..Len(pm.biases[op.kind = "pmm_low_alloc"]) }

OpExp == Ctz(SIZE_T_NEXT_POW2(op.size))

\* C14: a request of rounded exponent e, not the page exponent and without a
\* freelist at e, goes to the buddy rooted at the smallest bias exponent
\* t > e, whenever the table has a bias exponent above e
C14_BiasSelection ==
    ( /\ op.kind \in {"pmm_alloc", "pmm_low_alloc"}
      /\ op.who \notin {"fast", "freelist"}
      /\ \E t \in OpBiasExps : t > OpExp ) =>
        /\ op.exp > OpExp
        /\ \A t \in OpBiasExps : t > OpExp => op.exp <= t

\* C15: pmm_low_alloc returns only memory below ARC_PMM_LOW_MEM_LIM and
\* pmm_alloc only memory at or above it, a single page included; a page
\* freed to a fast-page pool goes to the pool of the region it lies in
C15_LowHighSeparation ==
    /\ (op.kind = "pmm_low_alloc" /\ op.ret # NULL) => op.ret < ARC_PMM_LOW_MEM_LIM
    /\ (op.kind = "pmm_alloc" /\ op.ret # NULL) => op.ret >= ARC_PMM_LOW_MEM_LIM
    /\ (op.kind \in {"pmm_free", "pmm_low_free"} /\ op.who = "fast") =>
          pm.fast[op.addr < ARC_PMM_LOW_MEM_LIM].pool = op.addr

(***************************************************************************)
(* Claims about the VMM                                                    *)
(***************************************************************************)
\* C12: when the pager fails the call, vmm_alloc returns null and leaves the
\* buddy (node list, node sizes, allocated flags) as it was before the call
C12_PagerFailureRollsBack ==
    (op.kind = "vmm_alloc" /\ ~vm.pager_ok) => (op.ret = NULL /\ op.same)

(***************************************************************************)
(* Claims about the watermark allocator                                    *)
(***************************************************************************)
\* the metas of a list, in list order, that have room for n more bytes
PwFits(W, n) ==
    { i \in 1..Len(W.head) :
        W.metas[W.head[i]].off + n
            <= W.metas[W.head[i]].ceil - W.metas[W.head[i]].base }

\* C16: a successful pwatermark_alloc(n) returns base + off of the first
\* region in list order with off + n <= ceil - base and advances that off by
\* n; the ranges handed out are pairwise disjoint and inside [base, ceil) of
\* a region; when no region fits the call returns null and changes nothing
C16_WatermarkSequential ==
    op.kind = "pw_alloc" =>
        /\ PwFits(op.pre, op.size) = {} => (op.ret = NULL /\ op.same)
        /\ PwFits(op.pre, op.size) # {} =>
              \E i \in PwFits(op.pre, op.size) :
                 /\ \A j \in PwFits(op.pre, op.size) : i <= j
                 /\ op.ret = op.pre.metas[op.pre.head[i]].base
                                + op.pre.metas[op.pre.head[i]].off
                 /\ pw = [op.pre EXCEPT !.metas[op.pre.head[i]].off = @ + op.size]
        /\ \A b \in live :
              \E m \in DOMAIN pw.metas :
                 pw.metas[m].base <= b[1] /\ b[1] + b[2] <= pw.metas[m].ceil
        /\ \A b, c \in live : b # c => ~Overlap(b[1], b[2], c[1], c[2])

\* C17: under every interleaving of concurrent pwatermark_alloc calls on one
\* list the returned ranges never overlap and no region's off exceeds
\* ceil - base
C17_BumpAtomic ==
    /\ \A b, c \in live : b # c => ~Overlap(b[1], b[2], c[1], c[2])
    /\ \A m \in DOMAIN pw.metas :
          pw.metas[m].off <= pw.metas[m].ceil - pw.metas[m].base

(***************************************************************************)
(* Claims about the buddy allocator under concurrent calls                 *)
(***************************************************************************)
\* the blocks that cover the unit u of region r: live blocks, and blocks
\* reachable from a free list of r
PbcCover(r, u) ==
    { <<"live", b>> : b \in { b \in live : b[1] <= u /\ u < b[1] + b[2] } }
    \cup
    UNION { { <<"free", i, a>> :
                a \in { a \in Range(PBFreeList(r, i)) :
                          a <= u /\ u < a + 2^(MinExp + i) } } : i \in ExpIdxs }

\* C18: under every interleaving of pbuddy_alloc and pbuddy_free on one list
\* no block is held by two allocations that are live at the same time, and at
\* every quiescent point each block is either allocated or reachable from
\* exactly one free list
C18_Linearises ==
    /\ \A b, c \in live : b # c => ~Overlap(b[1], b[2], c[1], c[2])
    /\ ((\A t \in PbcThreads : th[t].pc = "idle") /\ pb.fault = "none") =>
          \A r \in PBChain :
             \A u \in { r + k * (2^MinExp) : k \in 0..(2^Depth - 1) } :
                Cardinality(PbcCover(r, u)) = 1

(***************************************************************************)
(* Claims about contiguous allocation from a freelist                      *)
(***************************************************************************)
\* the objects of the run of op.cnt0 objects at a
OpRun(a) == { a + i * FlObjectSize : i \in 0..(op.cnt0 - 1) }

\* the objects on the free chain before the call
OpPreChain == Range(Chain(op.pre.next, op.pre.metas[FlBase].head, <<>>))

\* C19: pfreelist_contig_alloc(k) returns null once it has restarted 16
\* times; when it returns a non-null a, the k objects from a on were free
\* before the call and are off the free chain after it
C19_ContigFailsAfterLimit ==
    (op.kind = "fl_contig_alloc" /\ fl.fault = "none") =>
        /\ op.splits >= ContigFailLimit => op.ret = NULL
        /\ op.ret # NULL =>
              /\ OpRun(op.ret) \subseteq OpPreChain
              /\ OpRun(op.ret) \cap Range(FlFreeChain) = {}

\* C20: after pfreelist_contig_alloc(k), successful or not, the objects on
\* the free chain are those that were on it before the call less the returned
\* run: every other object the call popped is back on the chain
C20_ContigFreesBack ==
    (op.kind = "fl_contig_alloc" /\ fl.fault = "none") =>
        Range(FlFreeChain) =
            OpPreChain \ (IF op.ret = NULL THEN {} ELSE OpRun(op.ret))

\* the ARC_PFreelistMeta chained from m
RECURSIVE SlMetas(_, _)
SlMetas(F, m) == IF m = NULL THEN {} ELSE {m} \cup SlMetas(F, F.metas[m].next)

\* the classes whose chain of regions holds address a between base and ceil
SlClasses(G, a) ==
    { i \in PslabLists :
        \E m \in SlMetas(G.F, G.meta.lists[i]) :
           G.F.metas[m].base <= a /\ a < G.F.metas[m].ceil }

\* C21: pslab_alloc(size) with 0 < size <= the largest class returns an
\* object of the smallest class that is >= size, and returns null only when
\* the PMM had no page to expand the class with; above the largest class it
\* returns null and leaves every list as it was
C21_SlabAllocExpands ==
    (op.kind = "sl_alloc" /\ ga.F.fault = "none") =>
        /\ op.size > op.pre.meta.list_sizes[8] => op.ret = NULL /\ op.same
        /\ (0 < op.size /\ op.size <= op.pre.meta.list_sizes[8]) =>
              \E c \in PslabLists :
                 /\ op.pre.meta.list_sizes[c] >= op.size
                 /\ c > 1 => op.pre.meta.list_sizes[c - 1] < op.size
                 /\ op.ret # NULL => c \in SlClasses(ga, op.ret)
                 /\ op.ret = NULL => op.pre.pool = {}

\* C22: pslab_free(p) of an object pslab_alloc returned, whichever region of
\* its class it came from, returns non-null and leaves p at the head of a
\* region of its class; for an address no class holds it returns null and
\* changes no list
C22_SlabFreeRoundTrip ==
    (op.kind = "sl_free" /\ ga.F.fault = "none") =>
        /\ (\E b \in op.prelive : b[1] = op.addr) =>
              /\ op.ret # NULL
              /\ \E i \in SlClasses(op.pre, op.addr) :
                    \E m \in SlMetas(ga.F, ga.meta.lists[i]) :
                       ga.F.metas[m].head = op.addr
        /\ SlClasses(op.pre, op.addr) = {} => op.ret = NULL /\ op.same

(***************************************************************************)
(* Claims about the exponents, the frees and the regions of pbuddy         *)
(***************************************************************************)
\* exponent a request of size bytes is entitled to
PbxExp(S, size) == Max2(S.min_exp, Ctz(SIZE_T_NEXT_POW2(size)))

\* the blocks on the free lists of S, as <<region, index, address>>
PbxFree3(S) ==
    UNION { UNION { { <<r, i, a>> :
                        a \in Range(Chain(S.next, S.metas[r].free[i], <<>>)) } :
                    i \in 0..(S.exp - S.min_exp) } : r \in Range(S.head) }

\* C23: pbuddy_alloc(size) serves exponent max(min_exp, ceil(log2(size))): a
\* block it returns has that exponent recorded, and it returns null, leaving
\* the list as it was, only when that exponent is above exp or no region and
\* no page of the PMM holds a block that large
C23_ExponentClamped ==
    (op.kind = "alloc" /\ pb.fault = "none") =>
        /\ op.ret # NULL =>
              pb.metas[op.region].node_metas[
                  pbuddy_ptr2idx(pb.metas[op.region], op.ret)] = PbxExp(op.pre, op.size)
        /\ op.ret = NULL =>
              /\ op.same
              /\ \/ PbxExp(op.pre, op.size) > op.pre.exp
                 \/ /\ op.pre.pool = <<>>
                    /\ \A f \in PbxFree3(op.pre) :
                          op.pre.min_exp + f[2] < PbxExp(op.pre, op.size)

\* the start addresses of the blocks of region r: free or held by a caller
PbxStarts(r) ==
    { f[3] : f \in { f \in PbxFree3(pb) : f[1] = r } }
    \cup { b[1] : b \in { b \in live : r <= b[1] /\ b[1] < r + 2^pb.exp } }

\* C24: every block on free[i] has exponent min_exp + i recorded in
\* node_metas and starts at a multiple of 2^(min_exp + i) from base; every
\* block a caller holds has the exponent it was handed recorded; two blocks
\* that start at different addresses have different node_metas entries
C24_NodeMetasPerBlock ==
    pb.fault = "none" =>
        /\ \A f \in PbxFree3(pb) :
              /\ pb.metas[f[1]].node_metas[pbuddy_ptr2idx(pb.metas[f[1]], f[3])]
                    = pb.min_exp + f[2]
              /\ (f[3] - pb.metas[f[1]].base) % (2^(pb.min_exp + f[2])) = 0
        /\ \A r \in PBChain :
              /\ \A b \in live :
                    (r <= b[1] /\ b[1] < r + 2^pb.exp) =>
                       pb.metas[r].node_metas[pbuddy_ptr2idx(pb.metas[r], b[1])]
                          = Ctz(b[2])
              /\ \A a, b \in PbxStarts(r) :
                    a # b => pbuddy_ptr2idx(pb.metas[r], a)
                                # pbuddy_ptr2idx(pb.metas[r], b)

\* C25: pbuddy_free(p) returns 0 and changes no free list, canary or
\* node_metas entry when p lies inside a block a caller holds without being
\* its start, or outside [base, base + 2^exp) of every region of the list
C25_BadFreeRejected ==
    (/\ op.kind = "free_bad"
     /\ \/ \E b \in live : b[1] < op.addr /\ op.addr < b[1] + b[2]
        \/ \A r \in Range(op.pre.head) :
              ~(r <= op.addr /\ op.addr < r + 2^op.pre.exp))
    => (op.ret = 0 /\ op.same)

\* the canaries, free lists and node_metas of the list S
PbxFrame(S) ==
    <<S.canary_low, S.canary_high, S.next,
      [r \in DOMAIN S.metas |-> <<S.metas[r].free, S.metas[r].node_metas>>]>>

\* the first pbuddy_merge of the pbuddy_free(address) that op records, in
\* the list as it was before the call
PbxFirstMerge ==
    pbuddy_merge(op.pre, FindMeta(op.pre, op.pre.head, 1, op.addr), op.addr)

\* C26: a pbuddy_merge that aborts (returns NULL) leaves every canary, free
\* list and node_metas entry as it was; one that merges joins the block with
\* a buddy that was on the free list of the block's exponent and is held by
\* no caller
C26_AbortedMergeFrame ==
    (op.kind = "free" /\ FindMeta(op.pre, op.pre.head, 1, op.addr) # 0) =>
        \E m \in {PbxFirstMerge} :
           LET r == FindMeta(op.pre, op.pre.head, 1, op.addr)
               e == op.pre.metas[r].node_metas[
                        pbuddy_ptr2idx(op.pre.metas[r], op.addr)]
           IN /\ m.ret = NULL => PbxFrame(m.S) = PbxFrame(op.pre)
              /\ m.ret # NULL =>
                    /\ <<r, e - op.pre.min_exp, XorBit(op.addr, e)>>
                          \in PbxFree3(op.pre)
                    /\ \A b \in op.prelive : b[1] # XorBit(op.addr, e)

\* the region pbuddy_alloc picks first in the list S, 0 when it finds none
PbxRegion(S) ==
    IF FirstWithFree(S, S.head, 1) = 0 THEN 0
    ELSE S.head[FirstWithFree(S, S.head, 1)]

\* the block pbuddy_acquire(r, exp) pops from a larger list to split, NULL
\* when it serves from free[exp - min_exp] or finds no larger block
PbxSplitNode(S, r, exp) ==
    LET meta == S.metas[r]
        exp_idx == exp - meta.min_exp
        n == meta.exp - meta.min_exp + 1
        i == ScanUp(meta.free, exp_idx + 1, n)
    IN IF meta.free[exp_idx] # NULL /\ CanariesValid(S, meta.free[exp_idx])
       THEN NULL
       ELSE IF i < n /\ CanariesValid(S, meta.free[i]) THEN meta.free[i]
       ELSE NULL

\* C28: when a split fails in the pbuddy_acquire of a pbuddy_alloc, acquire
\* returns NULL, the block it popped is on the free list whose index is the
\* block's recorded exponent less min_exp, and every block that was on a
\* free list before the acquire is on one after it
C28_SplitFailurePushesBack ==
    (/\ op.kind = "alloc"
     /\ op.pre.min_exp <= Ctz(SIZE_T_NEXT_POW2(op.size))
     /\ Ctz(SIZE_T_NEXT_POW2(op.size)) <= op.pre.exp
     /\ PbxRegion(op.pre) # 0) =>
        \E r \in {PbxRegion(op.pre)} :
        \E node \in {PbxSplitNode(op.pre, r, Ctz(SIZE_T_NEXT_POW2(op.size)))} :
        \E a \in {pbuddy_acquire(op.pre, r, Ctz(SIZE_T_NEXT_POW2(op.size)))} :
           (node # NULL /\ a.ret = NULL /\ a.S.fault = "none") =>
              /\ <<r,
                   a.S.metas[r].node_metas[pbuddy_ptr2idx(a.S.metas[r], node)]
                      - a.S.min_exp,
                   node>> \in PbxFree3(a.S)
              /\ \A f \in PbxFree3(op.pre) :
                    \E g \in PbxFree3(a.S) : g[1] = f[1] /\ g[3] = f[3]

\* the regions of S, in list order, that have a block on some free list
PbxWithBlocks(S) ==
    SelectSeq(S.head, LAMBDA r : \E f \in PbxFree3(S) : f[1] = r)

\* C30: a region's free_objects is 0 exactly when all its free lists are
\* empty; a pbuddy_alloc that returns a block without a new region from the
\* PMM serves from the first region that had free blocks and leaves it at
\* the head; it takes a new region only when no region had a block of the
\* exponent asked for or larger
C30_HeadPromotion ==
    pb.fault = "none" =>
        /\ \A r \in PBChain :
              (pb.metas[r].free_objects = 0) <=>
                 (\A i \in ExpIdxs : pb.metas[r].free[i] = NULL)
        /\ (op.kind = "alloc" /\ op.ret # NULL /\ pb.pool = op.pre.pool) =>
              /\ PbxWithBlocks(op.pre) # <<>>
              /\ op.region = Head(PbxWithBlocks(op.pre))
              /\ Head(pb.head) = op.region
        /\ (op.kind = "alloc" /\ pb.pool # op.pre.pool) =>
              \A f \in PbxFree3(op.pre) :
                 op.pre.min_exp + f[2] < Ctz(SIZE_T_NEXT_POW2(op.size))

(***************************************************************************)
(* Claims about concurrent frees of a buddy pair                           *)
(***************************************************************************)
\* the units of the pair of buddies of exponent e that holds address a
PbcPairUnits(a, e) ==
    { u \in Units : Min2(a, XorBit(a, e)) <= u
                    /\ u < Min2(a, XorBit(a, e)) + 2^(e + 1) }

\* C27: a pbuddy_free that ran while another thread freed the buddy of its
\* block, or was handed it by pbuddy_alloc, ends without a fault, and once
\* every call has returned each unit of the pair is covered exactly once by
\* the blocks on the free lists and the blocks callers hold
C27_ConcurrentBuddyFrees ==
    /\ (\E t \in PbcThreads : th[t].con) => pb.fault = "none"
    /\ (/\ op.kind = "free" /\ op.who = "pair"
        /\ \A t \in PbcThreads : th[t].pc = "idle") =>
          /\ pb.fault = "none"
          /\ \A r \in PBChain :
                \A u \in PbcPairUnits(op.addr, op.exp) :
                   (r <= u /\ u < r + 2^pb.exp) =>
                      Cardinality(PbcCover(r, u)) = 1

(***************************************************************************)
(* Claims about the order_lock                                             *)
(***************************************************************************)
\* C29: a thread holds order_lock only between a spinlock_lock and the
\* spinlock_unlock of the same walk: never while it waits for the lock, runs
\* pbuddy_acquire, pbuddy_release or the body of init_pbuddy, or after it
\* has returned; and while any call is under way some thread can take a step
C29_OrderLockReleased ==
    pb.fault = "none" =>
        /\ \A t \in PbcThreads : th[t].pc \notin PblLocked => pb.order_lock # t
        /\ pb.order_lock # 0 => th[pb.order_lock].pc \in PblLocked
        /\ (\E t \in PbcThreads : th[t].pc # "idle") =>
              ENABLED (\E t \in PbcThreads : PblStep(t))

\* one thread waits at a spinlock_lock while another is inside its walk
C29_Contended ==
    \E t, u \in PbcThreads :
       /\ t # u
       /\ th[t].pc \in PblWaiting
       /\ pb.order_lock = u
       /\ pb.fault = "none"

(***************************************************************************)
(* Claims about the layout of a freelist region                            *)
(***************************************************************************)
\* the bytes the header takes when it is rounded up to whole objects
FlHeaderReserve == ((SizeofPFreelistMeta + FlObjectSize - 1) \div FlObjectSize)
                       * FlObjectSize

\* the object slots of the region behind the header
FlSlots ==
    { a \in FlAddrs : /\ FlBase + FlHeaderReserve <= a
                      /\ a + FlObjectSize <= FlCeil
                      /\ (a - FlBase) % FlObjectSize = 0 }

\* C31: init_pfreelist reserves ceil(sizeof(header) / object_size) objects for
\* the header and threads every other object slot of the region; in every
\* state each free node is a slot behind the header, below ceil and aligned,
\* its next is null or another free node, and head is null iff free_objects
\* is 0
C31_FreelistLayout ==
    fl.fault = "none" =>
        /\ nops = 0 => Range(FlFreeChain) = FlSlots
        /\ \A n \in Range(FlFreeChain) :
              /\ n \in FlSlots
              /\ fl.next[n] = NULL \/ fl.next[n] \in Range(FlFreeChain)
        /\ (fl.metas[FlBase].head = NULL) <=> (fl.metas[FlBase].free_objects = 0)

(***************************************************************************)
(* Claims about iallocator_expand                                          *)
(***************************************************************************)
\* the classes of G whose chain of regions is one longer than in G0
SxExpanded(G0, G) ==
    { i \in PslabLists :
        Cardinality(SlMetas(G.F, G.meta.lists[i]))
            = Cardinality(SlMetas(G0.F, G0.meta.lists[i])) + 1 }

\* the classes of G whose chain of regions is as in G0
SxUntouched(G0, G) ==
    { i \in PslabLists :
        /\ SlMetas(G.F, G.meta.lists[i]) = SlMetas(G0.F, G0.meta.lists[i])
        /\ \A m \in SlMetas(G.F, G.meta.lists[i]) : G.F.metas[m] = G0.F.metas[m] }

\* C32: iallocator_expand returns 0 when each of the 8 classes was expanded;
\* when a slot fails it returns a value other than 0, the slots before the
\* first failed one are expanded and the chain of the failed one is as before
C32_ExpandResult ==
    (op.kind = "ia_expand" /\ ga.F.fault = "none") =>
        /\ SxExpanded(op.pre, ga) = PslabLists => op.ret = 0
        /\ SxExpanded(op.pre, ga) # PslabLists =>
              /\ op.ret # 0
              /\ \E f \in PslabLists :
                    /\ f \in SxUntouched(op.pre, ga)
                    /\ \A i \in 1..(f - 1) : i \in SxExpanded(op.pre, ga)

(***************************************************************************)
(* Claims about the vwatermark allocator                                   *)
(***************************************************************************)
\* the free and the allocated nodes of the region
VwNodes == Range(pw.head[1].free) \cup Range(pw.head[1].allocated)

\* C37: once no allocation is live the free list of the region is one node
\* over [base, base + len) and vwatermark_alloc of the whole length succeeds;
\* in every state the free and the allocated nodes are pairwise disjoint and
\* cover exactly the region
C37_GreedyMerge ==
    /\ live = {} =>
          /\ pw.head[1].free = <<VwNode(VwBase, VwBase + VwLen)>>
          /\ vwatermark_alloc(pw, VwLen, TRUE).ret = VwBase
    /\ Len(pw.head[1].free) + Len(pw.head[1].allocated) = Cardinality(VwNodes)
    /\ \A n \in VwNodes : VwBase <= n.base /\ n.base < n.ceil /\ n.ceil <= VwBase + VwLen
    /\ \A n, k \in VwNodes :
          n # k => ~Overlap(n.base, n.ceil - n.base, k.base, k.ceil - k.base)
    /\ \A a \in VwAddrs : \E n \in VwNodes : n.base <= a /\ a < n.ceil

(***************************************************************************)
(* Claims about init_pmm                                                   *)
(***************************************************************************)
\* the ranges init_pmm has given out, as <<kind, base, length>>: the
\* bootstrap watermark, the freelist regions with their headers, and the
\* pages on the two fast-page stacks
PiRanges ==
    { <<"watermark", pm.watermark.base, pm.watermark.size>> : x \in
          { 1 : y \in { z \in {1} : pm.watermark.base # NULL } } }
    \cup { <<"freelist", m,
             pm.fl.metas[m].ceil + pm.fl.metas[m].object_size - m>> :
           m \in { b \in PmmAddrs : pm.fl.metas[b].object_size # 0 } }
    \cup UNION { { <<"fast", a, PAGE_SIZE>> :
                   a \in Range(Chain(pm.fl.next, pm.fast[low].pool, <<>>)) } :
                 low \in BOOLEAN }

\* C33: after init_pmm the bootstrap watermark, the freelist regions and the
\* pages on the fast-page stacks are pairwise disjoint and each lies, with
\* its whole length, inside an AVAILABLE entry of the memory map
C33_RegionsInAvailable ==
    (op.kind = "init_pmm" /\ pm.fault = "none" /\ pm.fl.fault = "none") =>
        /\ \A r, s \in PiRanges : r # s => ~Overlap(r[2], r[3], s[2], s[3])
        /\ \A r \in PiRanges :
              \E i \in DOMAIN th :
                 /\ th[i].type = "available"
                 /\ th[i].base <= r[2]
                 /\ r[2] + r[3] <= th[i].base + th[i].len

\* C34: init_pmm makes no call of alloc or free of the general allocator
\* before that allocator has been initialised, and takes its tables from the
\* bootstrap watermark
C34_BootstrapWithoutHeap ==
    op.kind = "init_pmm" =>
        /\ op.cnt0 = 0
        /\ \A t \in Range(op.pre) :
              t # NULL => /\ pm.watermark.base <= t
                          /\ t + PmmTableSize <= pm.watermark.base + pm.watermark.size


\* the pages on the fast-page stack of the high region
PfStack == Chain(pm.fl.next, pm.fast[FALSE].pool, <<>>)

\* C36: after init_pmm and any sequence of pmm_alloc, pmm_free,
\* pmm_fast_page_alloc and pmm_fast_page_free calls, frees of foreign
\* addresses and double frees included, the fast-page stack is an acyclic
\* list on which every page appears once and none is currently allocated,
\* and 0 <= allocated <= count with count - allocated pages on the stack
C36_FastPoolWellFormed ==
    (pm.fault = "none" /\ pm.fl.fault = "none") =>
        /\ ~Cyclic(pm.fl.next, pm.fast[FALSE].pool)
        /\ \A p \in Range(PfStack) : \A b \in live : b[1] # p
        /\ 0 <= pm.fast[FALSE].allocated
        /\ pm.fast[FALSE].allocated <= pm.fast[FALSE].count
        /\ pm.fast[FALSE].count - pm.fast[FALSE].allocated = Len(PfStack)


\* C35: under every interleaving of pmm_fast_page_alloc and
\* pmm_fast_page_free calls no page is held by two callers, no page is lost
\* from the pool (with no call in progress every page of the region is on
\* the stack or held), and pmm_fast_page_alloc never pops from an empty pool
C35_FastPoolConcurrent ==
    /\ \A b, c \in live : b[1] = c[1] => b = c
    /\ \A b \in live : b[1] \notin FpcPages(pm)
    /\ (\A t \in FpcThreads : th[t].pc = "idle") =>
          Cardinality(FpcPages(pm)) + Cardinality(live) = pm.fast[FALSE].count
    /\ op.kind = "fp_xchg" => op.ret # NULL
    /\ pm.fault = "none"


\* the node list covers [base, ceil) in address order without gaps
VbTiles(V) ==
    /\ V.tree # <<>>
    /\ V.tree[1].base = V.base
    /\ V.tree[Len(V.tree)].base + V.tree[Len(V.tree)].size = V.ceil
    /\ \A i \in 1..(Len(V.tree) - 1) :
          V.tree[i].base + V.tree[i].size = V.tree[i + 1].base

\* C38: in every reachable state of a vbuddy the node list tiles
\* [base, ceil) in address order without gaps, every node has a
\* power-of-two size, and every node's offset from the region base is a
\* multiple of its size
C38_BuddyAligned ==
    /\ VbTiles(vm.buddy)
    /\ \A i \in DOMAIN vm.buddy.tree :
          /\ SIZE_T_NEXT_POW2(vm.buddy.tree[i].size) = vm.buddy.tree[i].size
          /\ (vm.buddy.tree[i].base - vm.buddy.base) % vm.buddy.tree[i].size = 0

\* C39: whenever a sequence of vmm_alloc and vmm_free calls on a freshly
\* initialised vbuddy ends with no live allocation, the node list is again
\* one free node of the full region size
C39_RoundTrip ==
    (nops > 0 /\ \A i \in DOMAIN vm.buddy.tree : vm.buddy.tree[i].attributes = 0) =>
        vm.buddy.tree = <<VbNode(VmmBase, VmmRange, 0)>>


\* C40: under every interleaving of vbuddy_alloc and vbuddy_free calls on
\* one meta no two live allocations overlap, and with no call in progress
\* the node list is a gap-free tiling of the region
C40_VmmConcurrent ==
    /\ \A b, c \in live :
          b # c => ~Overlap(b[1], b[2], c[1], c[2])
    /\ (\A t \in VbcThreads : th[t].pc = "idle") => VbTiles(vm.buddy)

====
